---- MODULE Spec2Model ----
(***************************************************************************)
(* favilla: delayed cleanup queue (favilla/src/cleanup_queue.rs) and the   *)
(* frame loop of the multipipe example that drives it                      *)
(* (favilla-examples/src/bin/multipipe.rs); the linear allocator           *)
(* (favilla/src/linear_allocator.rs) and the push buffer                   *)
(* (favilla/src/push_buffer.rs), each also on its own.                     *)
(***************************************************************************)
EXTENDS Integers, Sequences, FiniteSets, TLC

\* ------------------------------------------------------------------ bounds
\* Largest number of frame slots / cleanup buckets tried (the example uses 2).
MaxNumFrames == 3
\* Calls of queue_buffer / queue_memory / queue in a run of the queue alone.
MaxQueueCalls == 2
\* Calls of tick in a run of the queue alone.
MaxTicks == 4
\* Handles a caller of the queue alone may pass (a handle may be passed twice).
Handles == {1, 2}
\* Frames the loop of the example starts in a run.
MaxFrameCount == 5
\* Stale reports acquire may give within one frame.
MaxStaleAcquires == 1
\* Numbers of vertices a frame may push: the 6 of the example, and 7, which
\* makes the push buffer and with it the frame buffers grow a second time.
VertexCounts == {6, 7}

\* Bits of a DeviceSize (u64) kept by the model.
DeviceSizeBits == 8
\* Calls of allocate in a run of the allocator alone.
MaxAllocCalls == 3
\* Largest capacity given to PushBuffer::new in a run of the push buffer alone.
MaxInitialCapacity == 4
\* Calls of push in a run of the push buffer alone.
MaxPushes == 8
\* Calls of start_pass in a run of the push buffer alone.
MaxPasses == 2
\* Largest element count of the two buffers in a run of copy alone.
MaxBufferLength == 3
\* Calls of copy in a run of copy alone.
MaxCopyCalls == 2
\* size_of::<T>() in a run of copy alone: u32 indices and Vertex.
CopyElemSizes == {4, 32}
\* src_offset and dst_offset passed to copy.
CopyOffsets == {0, 4}
\* Calls of one_time_submit in a run of it alone.
MaxSubmitCalls == 2
\* Submissions already on present_queue when one_time_submit is first called.
MaxPriorWork == 2
\* the largest alignment passed to get_aligned_offset on its own
MaxAlignment == 16
\* Calls of recreate_swapchain, frames submitted around them, and images of a
\* swapchain.
MaxRecreateCalls == 2
MaxSwapSubmits == 2
MaxSwapchainImages == 2
\* The `length` passed to create_index_buffer.
IndexLengths == {3, 6}
\* size_of::<u32>()
IndexSize == 4
\* Sizes of the backing memory of the allocator.
BackingSizes == {96, 128}
\* memory_req.size of the requests; HugeSize is added to them.
SmallSizes == {10, 50, 70}
\* memory_req.alignment of the requests.
Alignments == {1, 4, 16}

\* --------------------------------------------------------------- variables
VARIABLES
    \* CleanupQueue
    frame_queue,            \* Vec<QueuedFrame>, indexed 0..N-1
    current_frame_index,    \* usize
    \* history of the queue and of the device calls it makes
    tick_count,             \* number of tick() calls so far
    queue_count,            \* number of queue_* calls so far
    device_log,             \* destroy_buffer / free_memory calls, in order
    last_call,              \* the last CleanupQueue method called, with its argument
    \* multipipe main: engine and frame data
    num_frames,             \* VulkanEngine::num_frames
    current_frame,          \* VulkanEngine::current_frame
    frame_fences,           \* PerFrameData::frame_fence of each slot: TRUE = signaled
    staging_buffer_per_frame,
    vertex_buffer,
    index_buffer,
    push_buffer,            \* PushBuffer: [data, cap, length]
    next_handle,            \* the handle the next buffer allocation returns
    recreate_swapchain,
    exiting,
    \* multipipe main: the control thread inside the event closure
    pc,
    frame,                  \* the local `frame` of the running iteration
    recorded,               \* buffers the commands recorded in this iteration use
    \* the device
    gpu_pending,            \* submissions not yet completed, in submission order
    \* history
    in_flight,              \* frames submitted whose fence has not been waited on since
    ever_referenced,        \* buffers used by some submitted frame
    frame_count,            \* frames started
    steps,                  \* the steps of the running iteration, in order
    slot_uses,              \* uses of objects of the current slot in this iteration
    stale_acquires,         \* stale reports of acquire in this iteration
    rebuilds,               \* swapchain rebuilds in this iteration
    last_event,             \* the last event handed to the closure
    sync_ops,               \* the synchronisation calls of this iteration, with the handles passed
    staging_write,          \* the write into the staging buffer of this iteration
    swapchain_trace,        \* acquire, rebuild and present calls of this iteration, with results
    commands,               \* the commands recorded into the slot's command buffer
    \* LinearAllocator
    allocator,              \* LinearAllocator: [size, free_section_start]
    overflow_checks,        \* build profile: TRUE = u64 overflow panics, FALSE = it wraps
    \* history of the allocator
    sub_allocations,        \* the SubAllocations returned with Ok, in order
    alloc_calls,            \* number of allocate() calls so far
    last_alloc,             \* the last allocate() call: request, cursor before, result
    last_aligned,           \* the last get_aligned_offset() call made on its own
    \* PushBuffer<T> and its PushBufferPass
    elem_size,              \* size_of::<T>()
    pb_pc,                  \* "start", "idle", "pass" (a pass is alive), "panicked"
    pass_index,             \* PushBufferPass::index
    \* history of the push buffer
    pass_start,             \* the buffer when the running pass was started
    pushed,                 \* the elements pushed in the running or last pass, in order
    push_count,             \* number of push() calls so far
    pass_count,             \* number of start_pass() calls so far
    last_op,                \* the last PushBuffer operation, with argument and result
    \* VulkanBuffer<T>::copy
    copy_src,               \* the VulkanBuffer copy is called on: [id, length, device_size]
    copy_dst,               \* the VulkanBuffer passed as dst
    copy_commands,          \* the cmd_copy_buffer regions recorded into command_buffer
    copy_calls,             \* number of copy() calls so far
    last_copy,              \* the last copy() call: arguments and result
    \* VulkanEngine::one_time_submit and create_index_buffer
    ots_pc,                 \* position of the control thread in the two functions
    ots_call,               \* the running call: [no, caller, length]
    tmp_command_buffer,     \* "none", "initial", "recording", "executable", "pending", "freed"
    fence,                  \* "none", "unsignaled", "signaled", "destroyed"
    index_staging_buffer,   \* "none", "allocated", "written", "destroyed"
    ots_pending,            \* submissions on present_queue not yet completed, in order
    ots_log,                \* the device calls of the two functions, in order
    \* VulkanEngine::recreate_swapchain and its caller
    swapchain_manager,      \* SwapchainManager: [swapchain, swapchain_data]
    swapchain_objects,      \* the swapchains, image views and framebuffers alive on the device
    rs_pc,                  \* "caller", or the position inside recreate_swapchain
    rs_pending,             \* frames submitted and not yet completed, in order
    rs_log,                 \* create and destroy calls on swapchain objects, in order
    rs_calls,               \* number of recreate_swapchain calls so far
    rs_submits              \* number of frames submitted so far

cqVars == <<frame_queue, current_frame_index, tick_count, queue_count,
            device_log, last_call>>

appVars == <<num_frames, current_frame, frame_fences, staging_buffer_per_frame,
             vertex_buffer, index_buffer, push_buffer, next_handle,
             recreate_swapchain, exiting, pc, frame, recorded, gpu_pending,
             in_flight, ever_referenced, frame_count, steps, slot_uses,
             stale_acquires, rebuilds, last_event, swapchain_trace, commands,
             sync_ops, staging_write>>

laVars == <<allocator, overflow_checks, sub_allocations, alloc_calls, last_alloc,
            last_aligned>>

pbVars == <<elem_size, pb_pc, pass_index, pass_start, pushed, push_count,
            pass_count, last_op>>

bcVars == <<copy_src, copy_dst, copy_commands, copy_calls, last_copy>>

otsVars == <<ots_pc, ots_call, tmp_command_buffer, fence, index_staging_buffer,
             ots_pending, ots_log>>

swVars == <<swapchain_manager, swapchain_objects, rs_pc, rs_pending, rs_log,
            rs_calls, rs_submits>>

bufVars == <<bcVars, otsVars, swVars>>

libVars == <<laVars, pbVars, bufVars>>

\* appVars without push_buffer
frameLoopVars == <<num_frames, current_frame, frame_fences, staging_buffer_per_frame,
                   vertex_buffer, index_buffer, next_handle,
                   recreate_swapchain, exiting, pc, frame, recorded, gpu_pending,
                   in_flight, ever_referenced, frame_count, steps, slot_uses,
                   stale_acquires, rebuilds, last_event, swapchain_trace, commands,
             sync_ops, staging_write>>

vars == <<cqVars, appVars, libVars>>

\* ------------------------------------------------------------ CleanupQueue
\* QueuedFrame::new
QueuedFrame_new == [buffers |-> <<>>, memory |-> <<>>]

\* CleanupQueue::new
CleanupQueue_new(n) == [i \in 0 .. n - 1 |-> QueuedFrame_new]

\* CleanupQueue::num_frames
cq_num_frames(fq) == Cardinality(DOMAIN fq)

\* Faulty variant: the bucket of the current index itself
get_current_frame_index_same(fq, cfi) == cfi % cq_num_frames(fq)

\* CleanupQueue::get_current_frame_index: the bucket queue_* appends to
get_current_frame_index(fq, cfi) ==
    (cfi + cq_num_frames(fq) - 1) % cq_num_frames(fq)

\* An entry of a bucket: the handle, and (history) the number of ticks that
\* had been made when it was queued.
Entry(h, now) == [handle |-> h, at |-> now]

\* QueuedFrame::push_buffer
QueuedFrame_push_buffer(qf, e) == [qf EXCEPT !.buffers = Append(@, e)]

\* QueuedFrame::push_memory
QueuedFrame_push_memory(qf, e) == [qf EXCEPT !.memory = Append(@, e)]

\* CleanupQueue::queue_buffer
queue_buffer(fq, cfi, e) ==
    [fq EXCEPT ![get_current_frame_index(fq, cfi)] = QueuedFrame_push_buffer(@, e)]

\* Faulty variant: the memory handle lands in the list of buffers
queue_memory_into_buffers(fq, cfi, e) ==
    [fq EXCEPT ![get_current_frame_index(fq, cfi)] = QueuedFrame_push_buffer(@, e)]

\* CleanupQueue::queue_memory
queue_memory(fq, cfi, e) ==
    [fq EXCEPT ![get_current_frame_index(fq, cfi)] = QueuedFrame_push_memory(@, e)]

\* Cleanup for VulkanBufferWithDedicatedAllocation / StagingBufferWithDedicatedAllocation:
\* the buffer is queued, then the memory.
queue_dedicated(fq, cfi, b, m) ==
    queue_memory(queue_buffer(fq, cfi, b), cfi, m)

\* Faulty variant: every memory is freed, then every buffer destroyed.
DestroyCalls_memory_first(qf, by, bucket, now) ==
    [i \in 1 .. Len(qf.memory) |->
        [call |-> "free_memory", handle |-> qf.memory[i].handle,
         at |-> qf.memory[i].at, by |-> by, bucket |-> bucket, tick |-> now]]
    \o
    [i \in 1 .. Len(qf.buffers) |->
        [call |-> "destroy_buffer", handle |-> qf.buffers[i].handle,
         at |-> qf.buffers[i].at, by |-> by, bucket |-> bucket, tick |-> now]]

\* The device calls QueuedFrame::destroy makes: every buffer, then every memory.
DestroyCalls(qf, by, bucket, now) ==
    [i \in 1 .. Len(qf.buffers) |->
        [call |-> "destroy_buffer", handle |-> qf.buffers[i].handle,
         at |-> qf.buffers[i].at, by |-> by, bucket |-> bucket, tick |-> now]]
    \o
    [i \in 1 .. Len(qf.memory) |->
        [call |-> "free_memory", handle |-> qf.memory[i].handle,
         at |-> qf.memory[i].at, by |-> by, bucket |-> bucket, tick |-> now]]

\* Faulty variant: the lists are not cleared
QueuedFrame_destroy_keeps(qf) == qf

\* QueuedFrame::destroy: the lists are cleared
QueuedFrame_destroy(qf) == [qf EXCEPT !.buffers = <<>>, !.memory = <<>>]

tick_index_next(fq, cfi) == (cfi + 1) % cq_num_frames(fq)

\* Faulty variant: the index is not advanced
tick_index_stuck(fq, cfi) == cfi

\* Faulty variant: tick services the bucket queue_* appends to
tick_bucket_queued(fq, cfi) == get_current_frame_index(fq, cfi)

\* CleanupQueue::tick, the bucket it services
tick_bucket(fq, cfi) == cfi

\* CleanupQueue::tick, the new frame_queue
tick_queue(fq, cfi) == [fq EXCEPT ![tick_bucket(fq, cfi)] = QueuedFrame_destroy(@)]

\* CleanupQueue::tick, the new current_frame_index
tick_index(fq, cfi) == tick_index_next(fq, cfi)

\* CleanupQueue::tick, the device calls (now = the number of this tick)
tick_calls(fq, cfi, now) ==
    DestroyCalls(fq[tick_bucket(fq, cfi)], "tick", tick_bucket(fq, cfi), now)

RECURSIVE destroy_calls_from(_, _, _)
destroy_calls_from(fq, i, now) ==
    IF i >= cq_num_frames(fq) THEN <<>>
    ELSE DestroyCalls(fq[i], "destroy", i, now) \o destroy_calls_from(fq, i + 1, now)

\* CleanupQueue::destroy, the device calls: every bucket in index order
destroy_calls(fq, now) == destroy_calls_from(fq, 0, now)

\* CleanupQueue::destroy, the new frame_queue
destroy_queue(fq) == [i \in DOMAIN fq |-> QueuedFrame_destroy(fq[i])]

\* ------------------------------------------------ the queue alone (SpecCQ)
\* The frame loop does not run.
FrameLoopUnused ==
    /\ num_frames = 0 /\ current_frame = 0 /\ frame_fences = <<>>
    /\ staging_buffer_per_frame = <<>> /\ vertex_buffer = <<>> /\ index_buffer = <<>>
    /\ next_handle = 0
    /\ recreate_swapchain = FALSE /\ exiting = FALSE
    /\ pc = "unused" /\ frame = 0 /\ recorded = {}
    /\ gpu_pending = <<>> /\ in_flight = {} /\ ever_referenced = {}
    /\ frame_count = 0 /\ steps = <<>> /\ slot_uses = {}
    /\ stale_acquires = 0 /\ rebuilds = 0 /\ last_event = "none"
    /\ swapchain_trace = <<>> /\ commands = <<>> /\ sync_ops = <<>> /\ staging_write = <<>>

AppUnused == FrameLoopUnused /\ push_buffer = <<>>

\* No LinearAllocator is made.
AllocatorUnused ==
    /\ allocator = <<>> /\ overflow_checks = FALSE
    /\ sub_allocations = <<>> /\ alloc_calls = 0 /\ last_alloc = <<>>
    /\ last_aligned = <<>>

\* VulkanBuffer::copy is not called from outside the frame loop.
CopyUnused ==
    /\ copy_src = <<>> /\ copy_dst = <<>> /\ copy_commands = <<>>
    /\ copy_calls = 0 /\ last_copy = <<>>

\* one_time_submit is not called.
SubmitUnused ==
    /\ ots_pc = "unused" /\ ots_call = <<>> /\ tmp_command_buffer = "none"
    /\ fence = "none" /\ index_staging_buffer = "none"
    /\ ots_pending = <<>> /\ ots_log = <<>>

\* recreate_swapchain is not called from outside the frame loop.
SwapchainUnused ==
    /\ swapchain_manager = <<>> /\ swapchain_objects = {} /\ rs_pc = "unused"
    /\ rs_pending = <<>> /\ rs_log = <<>> /\ rs_calls = 0 /\ rs_submits = 0

BuffersUnused == CopyUnused /\ SubmitUnused /\ SwapchainUnused

\* No PushBuffer method is called from outside the frame loop.
PassUnused ==
    /\ pb_pc = "unused" /\ pass_index = 0 /\ pass_start = <<>>
    /\ pushed = <<>> /\ push_count = 0 /\ pass_count = 0 /\ last_op = <<>>

InitCQ ==
    /\ \E n \in 1 .. MaxNumFrames : frame_queue = CleanupQueue_new(n)
    /\ current_frame_index = 0
    /\ tick_count = 0
    /\ queue_count = 0
    /\ device_log = <<>>
    /\ last_call = [name |-> "new", handle |-> 0]
    /\ AppUnused
    /\ AllocatorUnused
    /\ elem_size = 0
    /\ PassUnused
    /\ BuffersUnused

CQ_QueueBuffer ==
    /\ queue_count < MaxQueueCalls
    /\ \E h \in Handles :
        /\ frame_queue' = queue_buffer(frame_queue, current_frame_index,
                                       Entry(h, tick_count))
        /\ last_call' = [name |-> "queue_buffer", handle |-> h]
    /\ queue_count' = queue_count + 1
    /\ UNCHANGED <<current_frame_index, tick_count, device_log>>
    /\ UNCHANGED <<appVars, libVars>>

CQ_QueueMemory ==
    /\ queue_count < MaxQueueCalls
    /\ \E h \in Handles :
        /\ frame_queue' = queue_memory(frame_queue, current_frame_index,
                                       Entry(h, tick_count))
        /\ last_call' = [name |-> "queue_memory", handle |-> h]
    /\ queue_count' = queue_count + 1
    /\ UNCHANGED <<current_frame_index, tick_count, device_log>>
    /\ UNCHANGED <<appVars, libVars>>

CQ_QueueDedicated ==
    /\ queue_count < MaxQueueCalls
    /\ \E h \in Handles :
        /\ frame_queue' = queue_dedicated(frame_queue, current_frame_index,
                                          Entry(h, tick_count), Entry(h, tick_count))
        /\ last_call' = [name |-> "queue", handle |-> h]
    /\ queue_count' = queue_count + 1
    /\ UNCHANGED <<current_frame_index, tick_count, device_log>>
    /\ UNCHANGED <<appVars, libVars>>

CQ_Tick ==
    /\ tick_count < MaxTicks
    /\ frame_queue' = tick_queue(frame_queue, current_frame_index)
    /\ current_frame_index' = tick_index(frame_queue, current_frame_index)
    /\ device_log' = device_log \o
                     tick_calls(frame_queue, current_frame_index, tick_count + 1)
    /\ tick_count' = tick_count + 1
    /\ last_call' = [name |-> "tick", handle |-> 0]
    /\ UNCHANGED queue_count
    /\ UNCHANGED <<appVars, libVars>>

CQ_Destroy ==
    /\ frame_queue' = destroy_queue(frame_queue)
    /\ device_log' = device_log \o destroy_calls(frame_queue, tick_count)
    /\ last_call' = [name |-> "destroy", handle |-> 0]
    /\ UNCHANGED <<current_frame_index, tick_count, queue_count>>
    /\ UNCHANGED <<appVars, libVars>>

NextCQ ==
    \/ CQ_QueueBuffer
    \/ CQ_QueueMemory
    \/ CQ_QueueDedicated
    \/ CQ_Tick
    \/ CQ_Destroy

SpecCQ == InitCQ /\ [][NextCQ]_vars

\* --------------------------------------------------------- LinearAllocator
\* DeviceSize is u64; the model keeps the wrap-around of u64 at a smaller width.
DeviceSizeModulus == 2 ^ DeviceSizeBits

\* A request larger than any backing size tried: offset + size passes the width.
HugeSize == DeviceSizeModulus - 16

RequestSizes == SmallSizes \cup {HugeSize}

\* a + b on u64. [ok |-> FALSE] is the panic of a build with overflow checks;
\* a build without them wraps.
u64_add(a, b) ==
    IF a + b < DeviceSizeModulus THEN [ok |-> TRUE, value |-> a + b]
    ELSE IF overflow_checks THEN [ok |-> FALSE, value |-> 0]
    ELSE [ok |-> TRUE, value |-> (a + b) % DeviceSizeModulus]

\* get_aligned_offset; offset % 0 panics in every build
get_aligned_offset(offset, alignment) ==
    IF alignment = 0 THEN [ok |-> FALSE, value |-> 0]
    ELSE LET misalignment == offset % alignment
             padding == IF misalignment = 0 THEN 0 ELSE alignment - misalignment
         IN  u64_add(offset, padding)

\* LinearAllocator::new, past device.allocate_memory
LinearAllocator_new(size) == [size |-> size, free_section_start |-> 0]

\* LinearAllocator::allocate on memory_req = [size, alignment]: the result
\* ("Ok", "OutOfMemory" or "panic"), the allocator afterwards, and the
\* SubAllocation of an Ok
allocate(la, size, alignment) ==
    LET offset == get_aligned_offset(la.free_section_start, alignment)
        new_start == IF offset.ok THEN u64_add(offset.value, size) ELSE offset
    IN  IF ~new_start.ok
        THEN [result |-> "panic", allocator |-> la, offset |-> 0, size |-> 0]
        ELSE IF new_start.value <= la.size
        THEN [result |-> "Ok",
              allocator |-> [la EXCEPT !.free_section_start = new_start.value],
              offset |-> offset.value, size |-> size]
        ELSE [result |-> "OutOfMemory", allocator |-> la, offset |-> 0, size |-> 0]

\* ------------------------------------------ the allocator alone (SpecLA)
\* No CleanupQueue is made.
QueueUnused ==
    /\ frame_queue = <<>> /\ current_frame_index = 0 /\ tick_count = 0
    /\ queue_count = 0 /\ device_log = <<>> /\ last_call = <<>>

InitLA ==
    /\ \E size \in BackingSizes : allocator = LinearAllocator_new(size)
    /\ overflow_checks \in BOOLEAN
    /\ sub_allocations = <<>>
    /\ alloc_calls = 0
    /\ last_alloc = [result |-> "new", size |-> 0, alignment |-> 1, before |-> 0,
                     offset |-> 0, returned_size |-> 0]
    /\ last_aligned = <<>>
    /\ QueueUnused
    /\ AppUnused
    /\ elem_size = 0
    /\ PassUnused
    /\ BuffersUnused

\* The caller neither goes on after a panic nor uses the allocator after destroy.
AllocatorUsable == last_alloc.result \notin {"panic", "destroy"}

\* allocator.allocate(memory_req)
LA_Allocate ==
    /\ AllocatorUsable
    /\ alloc_calls < MaxAllocCalls
    /\ \E size \in RequestSizes, alignment \in Alignments :
        LET r == allocate(allocator, size, alignment)
        IN  /\ allocator' = r.allocator
            /\ last_alloc' = [result |-> r.result, size |-> size,
                              alignment |-> alignment,
                              before |-> allocator.free_section_start,
                              offset |-> r.offset, returned_size |-> r.size]
            /\ sub_allocations' =
                  IF r.result = "Ok"
                  THEN Append(sub_allocations,
                              [offset |-> r.offset, size |-> r.size,
                               alignment |-> alignment])
                  ELSE sub_allocations
    /\ alloc_calls' = alloc_calls + 1
    /\ UNCHANGED <<overflow_checks, last_aligned, cqVars, appVars, pbVars, bufVars>>

\* allocator.destroy(device): free_memory of the backing memory; no field changes
LA_Destroy ==
    /\ AllocatorUsable
    /\ last_alloc' = [last_alloc EXCEPT !.result = "destroy"]
    /\ UNCHANGED <<allocator, overflow_checks, sub_allocations, alloc_calls,
                   last_aligned, cqVars, appVars, pbVars, bufVars>>

NextLA ==
    \/ LA_Allocate
    \/ LA_Destroy

SpecLA == InitLA /\ [][NextLA]_vars

\* ------------------------------- get_aligned_offset alone (SpecAlign)
\* get_aligned_offset is a public function: a caller passes any two u64
\* (here: any offset of the model's width and the alignments up to MaxAlignment).
AlignOffsets == 0 .. DeviceSizeModulus - 1

AlignAlignments == 0 .. MaxAlignment

InitAlign ==
    /\ overflow_checks \in BOOLEAN
    /\ \E offset \in AlignOffsets, alignment \in AlignAlignments :
          last_aligned = [offset |-> offset, alignment |-> alignment,
                          result |-> "none", value |-> 0]
    /\ allocator = <<>> /\ sub_allocations = <<>> /\ alloc_calls = 0
    /\ last_alloc = <<>>
    /\ QueueUnused
    /\ AppUnused
    /\ elem_size = 0
    /\ PassUnused
    /\ BuffersUnused

\* get_aligned_offset(offset, alignment): a value is returned, or the call
\* panics (alignment 0, or an overflow in a build with overflow checks)
GA_GetAlignedOffset ==
    /\ last_aligned.result = "none"
    /\ \E r \in {get_aligned_offset(last_aligned.offset, last_aligned.alignment)} :
          last_aligned' = [last_aligned EXCEPT
                              !.result = IF r.ok THEN "returned" ELSE "panic",
                              !.value = r.value]
    /\ UNCHANGED <<allocator, overflow_checks, sub_allocations, alloc_calls,
                   last_alloc, cqVars, appVars, pbVars, bufVars>>

NextAlign == GA_GetAlignedOffset

SpecAlign == InitAlign /\ [][NextAlign]_vars

\* -------------------------------------------------------------- PushBuffer
\* size_of::<Vertex>(): position, colour and tex_coords are 2 + 4 + 2 f32
VertexSize == 32

\* size_of::<T>() of the element types tried for PushBuffer<T>: u8, Vertex,
\* and a type of more than 1024 bytes
ElemSizes == {1, 32, 2048}

Max(a, b) == IF a >= b THEN a ELSE b

\* The capacity of self.data, a std Vec<T>, is kept apart from its length.
\* RawVec::<T>::MIN_NON_ZERO_CAP of std: the least capacity a growing Vec takes
MIN_NON_ZERO_CAP(es) == IF es = 1 THEN 8 ELSE IF es <= 1024 THEN 4 ELSE 1

\* Vec::reserve(additional) on a Vec of capacity cap and length len: the new
\* capacity (std grows to max(2 * cap, len + additional, MIN_NON_ZERO_CAP))
Vec_reserve(cap, len, additional) ==
    IF additional > cap - len
    THEN Max(MIN_NON_ZERO_CAP(elem_size), Max(2 * cap, len + additional))
    ELSE cap

\* Vec::resize_with(new_len, Default::default) on a Vec of the given data and
\* capacity; Default::default() is 0
Vec_resize_with(data, cap, new_len) ==
    IF new_len > Len(data)
    THEN [data |-> data \o [i \in 1 .. new_len - Len(data) |-> 0],
          cap |-> Vec_reserve(cap, Len(data), new_len - Len(data))]
    ELSE [data |-> SubSeq(data, 1, new_len), cap |-> cap]

\* Faulty variant: no check of the capacity.
PushBuffer_new_asserts_nothing(c) == TRUE

\* PushBuffer::new: assert!(capacity > 0)
PushBuffer_new_asserts(c) == c > 0

\* PushBuffer::new past the assertion: vec![Default::default(); capacity] has
\* length and capacity `capacity`
PushBuffer_new(c) == [data |-> [i \in 1 .. c |-> 0], cap |-> c, length |-> 0]

\* PushBuffer::len
pb_len(pb) == pb.length

\* PushBuffer::capacity: self.data.capacity()
pb_capacity(pb) == pb.cap

\* Faulty variant: the pass leaves the length of the buffer alone.
PushBufferPass_new_keeps_length(pb, start_index) ==
    [ok |-> TRUE, data |-> pb.data, cap |-> pb.cap, length |-> pb.length,
     index |-> start_index]

\* PushBufferPass::new: the pass borrows the buffer (data, cap, length) and holds
\* its own index; ok is FALSE once a push has panicked
PushBufferPass_new(pb, start_index) ==
    [ok |-> TRUE, data |-> pb.data, cap |-> pb.cap, length |-> start_index,
     index |-> start_index]

\* PushBuffer::start_pass: Err(()) is [ok |-> FALSE]
start_pass(pb, start_index) ==
    IF start_index >= pb_capacity(pb)
    THEN [ok |-> FALSE]
    ELSE PushBufferPass_new(pb, start_index)

\* PushBufferPass::push: self.push_buffer.data[self.index] panics when the index
\* is not below the length of data (then ok is FALSE and nothing is written)
pass_push(pass, element) ==
    LET v == IF pass.index = pass.cap
             THEN Vec_resize_with(pass.data, pass.cap, 2 * pass.cap)
             ELSE [data |-> pass.data, cap |-> pass.cap]
    IN  IF pass.index < Len(v.data)
        THEN [pass EXCEPT !.data = [v.data EXCEPT ![pass.index + 1] = element],
                          !.cap = v.cap,
                          !.index = pass.index + 1]
        ELSE [pass EXCEPT !.ok = FALSE, !.data = v.data, !.cap = v.cap]

\* PushBufferPass::finish
pass_finish(pass) == [data |-> pass.data, cap |-> pass.cap, length |-> pass.index]

\* The buffer a pass borrows, as it is when the pass is dropped without finish
pass_buffer(pass) == [data |-> pass.data, cap |-> pass.cap, length |-> pass.length]

RECURSIVE pass_push_all(_, _, _)
\* for v in &vertices { push_buffer_pass.push(*v) }: vertex i is the number i
pass_push_all(pass, i, k) ==
    IF i > k \/ ~pass.ok
    THEN pass
    ELSE CHOOSE r \in {pass_push_all(p, i + 1, k) : p \in {pass_push(pass, i)}} : TRUE

\* -------------------------------------------- the push buffer alone (SpecPB)
InitPB ==
    /\ elem_size \in ElemSizes
    /\ pb_pc = "start"
    /\ push_buffer = <<>>
    /\ pass_index = 0
    /\ pass_start = <<>>
    /\ pushed = <<>>
    /\ push_count = 0
    /\ pass_count = 0
    /\ last_op = [op |-> "none", arg |-> 0, result |-> "none"]
    /\ QueueUnused
    /\ FrameLoopUnused
    /\ AllocatorUnused
    /\ BuffersUnused

\* PushBuffer::new(c); a failed assertion panics and no buffer is made
PB_New ==
    /\ pb_pc = "start"
    /\ \E c \in 0 .. MaxInitialCapacity :
        IF PushBuffer_new_asserts(c)
        THEN /\ push_buffer' = PushBuffer_new(c)
             /\ pb_pc' = "idle"
             /\ last_op' = [op |-> "new", arg |-> c, result |-> "Ok"]
        ELSE /\ pb_pc' = "panicked"
             /\ last_op' = [op |-> "new", arg |-> c, result |-> "panic"]
             /\ UNCHANGED push_buffer
    /\ UNCHANGED <<elem_size, pass_index, pass_start, pushed, push_count,
                   pass_count, cqVars, frameLoopVars, laVars, bufVars>>

\* push_buffer.start_pass(s), with s up to one past the capacity
PB_StartPass ==
    /\ pb_pc = "idle"
    /\ pass_count < MaxPasses
    /\ \E s \in 0 .. pb_capacity(push_buffer) + 1 :
        LET r == start_pass(push_buffer, s)
        IN  IF r.ok
            THEN /\ push_buffer' = pass_buffer(r)
                 /\ pass_index' = r.index
                 /\ pb_pc' = "pass"
                 /\ pass_start' = [buffer |-> push_buffer, start_index |-> s]
                 /\ pushed' = <<>>
                 /\ last_op' = [op |-> "start_pass", arg |-> s, result |-> "Ok"]
            ELSE /\ last_op' = [op |-> "start_pass", arg |-> s, result |-> "Err"]
                 /\ UNCHANGED <<push_buffer, pass_index, pb_pc, pass_start, pushed>>
    /\ pass_count' = pass_count + 1
    /\ UNCHANGED <<elem_size, push_count, cqVars, frameLoopVars, laVars, bufVars>>

\* The living PushBufferPass: the borrowed buffer and the index
CurrentPass ==
    [ok |-> TRUE, data |-> push_buffer.data, cap |-> push_buffer.cap,
     length |-> push_buffer.length, index |-> pass_index]

\* pass.push(element): the elements pushed are numbered 1, 2, .. as in
\* tests::push_buffer_grows; a panic ends the run
PB_Push ==
    /\ pb_pc = "pass"
    /\ push_count < MaxPushes
    /\ LET element == push_count + 1
           r == pass_push(CurrentPass, element)
       IN  /\ push_buffer' = pass_buffer(r)
           /\ pass_index' = r.index
           /\ pb_pc' = IF r.ok THEN "pass" ELSE "panicked"
           /\ pushed' = IF r.ok THEN Append(pushed, element) ELSE pushed
           /\ last_op' = [op |-> "push", arg |-> element,
                          result |-> IF r.ok THEN "Ok" ELSE "panic"]
    /\ push_count' = push_count + 1
    /\ UNCHANGED <<elem_size, pass_start, pass_count, cqVars, frameLoopVars, laVars, bufVars>>

\* pass.finish()
PB_Finish ==
    /\ pb_pc = "pass"
    /\ push_buffer' = pass_finish(CurrentPass)
    /\ pb_pc' = "idle"
    /\ last_op' = [op |-> "finish", arg |-> 0, result |-> "Ok"]
    /\ UNCHANGED <<elem_size, pass_index, pass_start, pushed, push_count,
                   pass_count, cqVars, frameLoopVars, laVars, bufVars>>

\* The pass goes out of scope without finish.
PB_DropPass ==
    /\ pb_pc = "pass"
    /\ push_buffer' = pass_buffer(CurrentPass)
    /\ pb_pc' = "idle"
    /\ last_op' = [op |-> "drop", arg |-> 0, result |-> "Ok"]
    /\ UNCHANGED <<elem_size, pass_index, pass_start, pushed, push_count,
                   pass_count, cqVars, frameLoopVars, laVars, bufVars>>

NextPB ==
    \/ PB_New
    \/ PB_StartPass
    \/ PB_Push
    \/ PB_Finish
    \/ PB_DropPass

SpecPB == InitPB /\ [][NextPB]_vars

\* ----------------------------------------------------------------- buffers
\* VulkanBufferWithDedicatedAllocation::allocate: one handle names the buffer
\* and its dedicated memory
Allocate(h, length) == [id |-> h, length |-> length]

\* VulkanBuffer::new: length elements of size_of::<T>() bytes
VulkanBuffer_new(h, length) ==
    [id |-> h, length |-> length, device_size |-> length * elem_size]

\* BufferCopy::builder().src_offset(..).dst_offset(..).size(..): a region in bytes
BufferCopy(src, dst, src_offset, dst_offset, size) ==
    [src |-> src.id, dst |-> dst.id, src_offset |-> src_offset,
     dst_offset |-> dst_offset, size |-> size]

\* Faulty variant: the length is not checked against dst.
copy_unchecked_dst(src, dst, src_offset, dst_offset, length) ==
    IF src.length < length
    THEN [result |-> "SpecifiedLengthExceedsBounds", commands |-> <<>>]
    ELSE [result |-> "Ok",
          commands |-> <<BufferCopy(src, dst, src_offset, dst_offset,
                                    length * elem_size)>>]

\* VulkanBuffer::copy: the result and the regions handed to cmd_copy_buffer
copy(src, dst, src_offset, dst_offset, length) ==
    IF src.length < length \/ dst.length < length
    THEN [result |-> "SpecifiedLengthExceedsBounds", commands |-> <<>>]
    ELSE [result |-> "Ok",
          commands |-> <<BufferCopy(src, dst, src_offset, dst_offset,
                                    length * elem_size)>>]

\* VulkanBuffer::copy(.., 0, 0, length) returns Ok
copy_ok(src, dst, length) == copy(src, dst, 0, 0, length).result = "Ok"

\* --------------------------------------- VulkanBuffer::copy alone (SpecCopy)
InitCopy ==
    /\ elem_size \in CopyElemSizes
    /\ \E n \in 0 .. MaxBufferLength : copy_src = VulkanBuffer_new(1, n)
    /\ \E n \in 0 .. MaxBufferLength : copy_dst = VulkanBuffer_new(2, n)
    /\ copy_commands = <<>>
    /\ copy_calls = 0
    /\ last_copy = [result |-> "none", src_offset |-> 0, dst_offset |-> 0,
                    length |-> 0, before |-> 0]
    /\ QueueUnused
    /\ AppUnused
    /\ AllocatorUnused
    /\ PassUnused
    /\ SubmitUnused
    /\ SwapchainUnused

\* copy_src.copy(vk_engine, command_buffer, &mut copy_dst, src_offset, dst_offset, length)
BC_Copy ==
    /\ copy_calls < MaxCopyCalls
    /\ \E src_offset \in CopyOffsets, dst_offset \in CopyOffsets,
          length \in 0 .. MaxBufferLength + 1 :
        LET r == copy(copy_src, copy_dst, src_offset, dst_offset, length)
        IN  /\ copy_commands' = copy_commands \o r.commands
            /\ last_copy' = [result |-> r.result, src_offset |-> src_offset,
                             dst_offset |-> dst_offset, length |-> length,
                             before |-> Len(copy_commands)]
    /\ copy_calls' = copy_calls + 1
    /\ UNCHANGED <<copy_src, copy_dst, cqVars, appVars, laVars, pbVars, otsVars, swVars>>

NextCopy == BC_Copy

SpecCopy == InitCopy /\ [][NextCopy]_vars

\* ------------- one_time_submit and create_index_buffer alone (SpecSubmit)
\* Faulty variant: the wait does not block
TmpFenceWaitReturns_always == TRUE

\* wait_for_fences(&[fence], true, u64::MAX) returns once the fence is signaled
TmpFenceWaitReturns == fence = "signaled"

\* The order of the statements of one_time_submit, and of create_index_buffer
\* after it
OtsNextPc(p, caller) ==
    CASE p = "allocate_cmd" -> "begin"
      [] p = "begin" -> "f"
      [] p = "f" -> "end"
      [] p = "end" -> "create_fence"
      [] p = "create_fence" -> "submit"
      [] p = "submit" -> "wait"
      [] p = "wait" -> "destroy_fence"
      [] p = "destroy_fence" -> "free_cmd"
      [] p = "free_cmd" -> IF caller = "create_index_buffer"
                           THEN "destroy_staging" ELSE "idle"
      [] p = "destroy_staging" -> "idle"

\* Whether the submission of call `no` is still on the device
OtsPending(no) == \E i \in DOMAIN ots_pending : ots_pending[i].no = no

\* A device call of the running one_time_submit, with what the device is doing
LogEntry(call) ==
    [call |-> call, no |-> ots_call.no, pending |-> OtsPending(ots_call.no),
     queued |-> Len(ots_pending)]

InitSubmit ==
    /\ ots_pc = "idle"
    /\ ots_call = [no |-> 0, caller |-> "none", length |-> 0]
    /\ tmp_command_buffer = "none"
    /\ fence = "none"
    /\ index_staging_buffer = "none"
    /\ \E n \in 0 .. MaxPriorWork :
          ots_pending = [i \in 1 .. n |-> [no |-> 0, signals |-> "frame_fence"]]
    /\ ots_log = <<>>
    /\ elem_size = IndexSize
    /\ QueueUnused
    /\ AppUnused
    /\ AllocatorUnused
    /\ PassUnused
    /\ CopyUnused
    /\ SwapchainUnused

OtsUnchanged == UNCHANGED <<cqVars, appVars, laVars, pbVars, bcVars, swVars>>

\* create_index_buffer up to the call of one_time_submit: the two allocations
\* and the write of the index data into the staging buffer
OTS_CreateIndexBuffer ==
    /\ ots_pc = "idle"
    /\ ots_call.no < MaxSubmitCalls
    /\ \E length \in IndexLengths :
          ots_call' = [no |-> ots_call.no + 1, caller |-> "create_index_buffer",
                       length |-> length]
    /\ index_staging_buffer' = "written"
    /\ tmp_command_buffer' = "none"
    /\ fence' = "none"
    /\ ots_pc' = "allocate_cmd"
    /\ UNCHANGED <<ots_pending, ots_log>>
    /\ OtsUnchanged

\* Texture::copy_staging_to_image calls one_time_submit
OTS_TextureUpload ==
    /\ ots_pc = "idle"
    /\ ots_call.no < MaxSubmitCalls
    /\ ots_call' = [no |-> ots_call.no + 1, caller |-> "texture", length |-> 0]
    /\ index_staging_buffer' = "none"
    /\ tmp_command_buffer' = "none"
    /\ fence' = "none"
    /\ ots_pc' = "allocate_cmd"
    /\ UNCHANGED <<ots_pending, ots_log>>
    /\ OtsUnchanged

\* allocate_command_buffers
OTS_AllocateCommandBuffer ==
    /\ ots_pc = "allocate_cmd"
    /\ tmp_command_buffer' = "initial"
    /\ ots_log' = Append(ots_log, LogEntry("allocate_command_buffers"))
    /\ ots_pc' = OtsNextPc(ots_pc, ots_call.caller)
    /\ UNCHANGED <<ots_call, fence, index_staging_buffer, ots_pending>>
    /\ OtsUnchanged

\* begin_command_buffer with ONE_TIME_SUBMIT
OTS_Begin ==
    /\ ots_pc = "begin"
    /\ tmp_command_buffer' = "recording"
    /\ ots_log' = Append(ots_log, LogEntry("begin_command_buffer"))
    /\ ots_pc' = OtsNextPc(ots_pc, ots_call.caller)
    /\ UNCHANGED <<ots_call, fence, index_staging_buffer, ots_pending>>
    /\ OtsUnchanged

\* f(tmp_command_buffer): the closure of create_index_buffer records the copy
\* from the staging buffer to the index buffer and unwraps its result
OTS_Record ==
    /\ ots_pc = "f"
    /\ LET staging == VulkanBuffer_new(1, ots_call.length)
           index == VulkanBuffer_new(2, ots_call.length)
           r == copy(staging, index, 0, 0, ots_call.length)
       IN  ots_pc' = IF ots_call.caller = "create_index_buffer" /\ r.result # "Ok"
                     THEN "panicked"
                     ELSE OtsNextPc(ots_pc, ots_call.caller)
    /\ ots_log' = Append(ots_log, LogEntry("f"))
    /\ UNCHANGED <<ots_call, tmp_command_buffer, fence, index_staging_buffer,
                   ots_pending>>
    /\ OtsUnchanged

\* end_command_buffer
OTS_End ==
    /\ ots_pc = "end"
    /\ tmp_command_buffer' = "executable"
    /\ ots_log' = Append(ots_log, LogEntry("end_command_buffer"))
    /\ ots_pc' = OtsNextPc(ots_pc, ots_call.caller)
    /\ UNCHANGED <<ots_call, fence, index_staging_buffer, ots_pending>>
    /\ OtsUnchanged

\* create_fence(&fence_info, None): not signaled
OTS_CreateFence ==
    /\ ots_pc = "create_fence"
    /\ fence' = "unsignaled"
    /\ ots_log' = Append(ots_log, LogEntry("create_fence"))
    /\ ots_pc' = OtsNextPc(ots_pc, ots_call.caller)
    /\ UNCHANGED <<ots_call, tmp_command_buffer, index_staging_buffer, ots_pending>>
    /\ OtsUnchanged

\* queue_submit(self.present_queue, &[submit_info], fence)
OTS_Submit ==
    /\ ots_pc = "submit"
    /\ ots_pending' = Append(ots_pending, [no |-> ots_call.no, signals |-> "fence"])
    /\ tmp_command_buffer' = "pending"
    /\ ots_log' = Append(ots_log, LogEntry("queue_submit"))
    /\ ots_pc' = OtsNextPc(ots_pc, ots_call.caller)
    /\ UNCHANGED <<ots_call, fence, index_staging_buffer>>
    /\ OtsUnchanged

\* wait_for_fences(&[fence], true, u64::MAX) returns
OTS_WaitFence ==
    /\ ots_pc = "wait"
    /\ TmpFenceWaitReturns
    /\ ots_log' = Append(ots_log, LogEntry("wait_for_fences"))
    /\ ots_pc' = OtsNextPc(ots_pc, ots_call.caller)
    /\ UNCHANGED <<ots_call, tmp_command_buffer, fence, index_staging_buffer,
                   ots_pending>>
    /\ OtsUnchanged

\* destroy_fence(fence, None)
OTS_DestroyFence ==
    /\ ots_pc = "destroy_fence"
    /\ fence' = "destroyed"
    /\ ots_log' = Append(ots_log, LogEntry("destroy_fence"))
    /\ ots_pc' = OtsNextPc(ots_pc, ots_call.caller)
    /\ UNCHANGED <<ots_call, tmp_command_buffer, index_staging_buffer, ots_pending>>
    /\ OtsUnchanged

\* free_command_buffers(command_pool, &[tmp_command_buffer]), then the return
OTS_FreeCommandBuffer ==
    /\ ots_pc = "free_cmd"
    /\ tmp_command_buffer' = "freed"
    /\ ots_log' = Append(Append(ots_log, LogEntry("free_command_buffers")),
                         LogEntry("return"))
    /\ ots_pc' = OtsNextPc(ots_pc, ots_call.caller)
    /\ UNCHANGED <<ots_call, fence, index_staging_buffer, ots_pending>>
    /\ OtsUnchanged

\* create_index_buffer after one_time_submit: index_staging_buffer.destroy
OTS_DestroyStaging ==
    /\ ots_pc = "destroy_staging"
    /\ index_staging_buffer' = "destroyed"
    /\ ots_log' = Append(ots_log, LogEntry("destroy_staging"))
    /\ ots_pc' = OtsNextPc(ots_pc, ots_call.caller)
    /\ UNCHANGED <<ots_call, tmp_command_buffer, fence, ots_pending>>
    /\ OtsUnchanged

\* The device completes the oldest submission on present_queue and signals
\* the fence it was submitted with
OTS_GpuComplete ==
    /\ ots_pending # <<>>
    /\ ots_pending' = Tail(ots_pending)
    /\ IF Head(ots_pending).signals = "fence"
       THEN /\ fence' = IF fence = "unsignaled" THEN "signaled" ELSE fence
            /\ tmp_command_buffer' = IF tmp_command_buffer = "pending"
                                     THEN "invalid" ELSE tmp_command_buffer
       ELSE UNCHANGED <<fence, tmp_command_buffer>>
    /\ UNCHANGED <<ots_pc, ots_call, index_staging_buffer, ots_log>>
    /\ OtsUnchanged

NextSubmit ==
    \/ OTS_CreateIndexBuffer
    \/ OTS_TextureUpload
    \/ OTS_AllocateCommandBuffer
    \/ OTS_Begin
    \/ OTS_Record
    \/ OTS_End
    \/ OTS_CreateFence
    \/ OTS_Submit
    \/ OTS_WaitFence
    \/ OTS_DestroyFence
    \/ OTS_FreeCommandBuffer
    \/ OTS_DestroyStaging
    \/ OTS_GpuComplete

SpecSubmit == InitSubmit /\ [][NextSubmit]_vars

\* ------------------------------ recreate_swapchain alone (SpecSwap)
\* A device object that depends on the swapchain: the swapchain number gen
\* itself (image 0), or the image view or framebuffer of its image i
SwapchainObject(kind, gen, image) == [kind |-> kind, gen |-> gen, image |-> image]

NoObject == SwapchainObject("none", 0, 0)

\* SwapchainManager::new, the value returned for the gen-th swapchain made,
\* for which get_swapchain_images returns n images
SwapchainManager_new(gen, n) ==
    [swapchain |-> SwapchainObject("swapchain", gen, 0),
     swapchain_data |->
        [i \in 1 .. n |->
            [present_image_view |-> SwapchainObject("image_view", gen, i),
             framebuffer |-> SwapchainObject("framebuffer", gen, i)]]]

DeviceCall(call, object) == [call |-> call, object |-> object]

\* SwapchainManager::new, the device calls: create_swapchain, create_image_view
\* for every image, create_framebuffer for every image view
SwapchainManager_new_calls(sm) ==
    << DeviceCall("create_swapchain", sm.swapchain) >>
    \o [i \in DOMAIN sm.swapchain_data |->
            DeviceCall("create_image_view", sm.swapchain_data[i].present_image_view)]
    \o [i \in DOMAIN sm.swapchain_data |->
            DeviceCall("create_framebuffer", sm.swapchain_data[i].framebuffer)]

\* SwapchainManager::destroy, the device calls: PerSwapchainImage::destroy of
\* every image (destroy_framebuffer, destroy_image_view), then destroy_swapchain
SwapchainManager_destroy_calls(sm) ==
    [k \in 1 .. 2 * Len(sm.swapchain_data) |->
        IF k % 2 = 1
        THEN DeviceCall("destroy_framebuffer",
                        sm.swapchain_data[(k + 1) \div 2].framebuffer)
        ELSE DeviceCall("destroy_image_view",
                        sm.swapchain_data[k \div 2].present_image_view)]
    \o << DeviceCall("destroy_swapchain", sm.swapchain) >>

\* The objects a sequence of device calls names
ObjectsOf(calls) == {calls[i].object : i \in DOMAIN calls}

\* A frame submitted after acquire returned image i: it renders into the
\* framebuffer of swapchain_data[i]
SubmittedFrame(sm, i) ==
    [swapchain |-> sm.swapchain,
     present_image_view |-> sm.swapchain_data[i].present_image_view,
     framebuffer |-> sm.swapchain_data[i].framebuffer]

\* The swapchain objects the frames on the device use
InUse(pending) ==
    UNION {{pending[i].swapchain, pending[i].present_image_view,
            pending[i].framebuffer} : i \in DOMAIN pending}

\* An entry of rs_log: the call, the recreate_swapchain call that made it
\* (0: the construction in main) and the objects in use on the device then
RsLogEntry(c, no, pending) ==
    [call |-> c.call, object |-> c.object, no |-> no, in_use |-> InUse(pending)]

RsLog(calls, no, pending) == [i \in DOMAIN calls |-> RsLogEntry(calls[i], no, pending)]

\* Faulty variant: the wait returns while frames are on the device.
device_wait_idle_returns_at_once(pending) == TRUE

\* device.device_wait_idle() returns Ok once nothing submitted is unfinished
device_wait_idle_returns(pending) == pending = <<>>

InitSwap ==
    /\ \E n \in 1 .. MaxSwapchainImages :
          /\ swapchain_manager = SwapchainManager_new(1, n)
          /\ swapchain_objects =
                ObjectsOf(SwapchainManager_new_calls(SwapchainManager_new(1, n)))
          /\ rs_log = RsLog(SwapchainManager_new_calls(SwapchainManager_new(1, n)),
                            0, <<>>)
    /\ rs_pc = "caller"
    /\ rs_pending = <<>>
    /\ rs_calls = 0
    /\ rs_submits = 0
    /\ elem_size = 0
    /\ QueueUnused
    /\ AppUnused
    /\ AllocatorUnused
    /\ PassUnused
    /\ CopyUnused
    /\ SubmitUnused

SwUnchanged == UNCHANGED <<cqVars, appVars, laVars, pbVars, bcVars, otsVars>>

\* The caller submits a frame that renders into the framebuffer of an
\* acquired image
SW_SubmitFrame ==
    /\ rs_pc = "caller"
    /\ rs_submits < MaxSwapSubmits
    /\ \E i \in DOMAIN swapchain_manager.swapchain_data :
          rs_pending' = Append(rs_pending, SubmittedFrame(swapchain_manager, i))
    /\ rs_submits' = rs_submits + 1
    /\ UNCHANGED <<swapchain_manager, swapchain_objects, rs_pc, rs_log, rs_calls>>
    /\ SwUnchanged

\* The device completes the oldest submitted frame
SW_GpuComplete ==
    /\ rs_pending # <<>>
    /\ rs_pending' = Tail(rs_pending)
    /\ UNCHANGED <<swapchain_manager, swapchain_objects, rs_pc, rs_log, rs_calls,
                   rs_submits>>
    /\ SwUnchanged

\* vk_engine.recreate_swapchain(..) is called
SW_Call ==
    /\ rs_pc = "caller"
    /\ rs_calls < MaxRecreateCalls
    /\ rs_calls' = rs_calls + 1
    /\ rs_pc' = "device_wait_idle"
    /\ UNCHANGED <<swapchain_manager, swapchain_objects, rs_pending, rs_log,
                   rs_submits>>
    /\ SwUnchanged

\* self.device.device_wait_idle().unwrap() returns
SW_DeviceWaitIdle ==
    /\ rs_pc = "device_wait_idle"
    /\ device_wait_idle_returns(rs_pending)
    /\ rs_log' = Append(rs_log,
                        RsLogEntry(DeviceCall("device_wait_idle", NoObject),
                                   rs_calls, rs_pending))
    /\ rs_pc' = "destroy"
    /\ UNCHANGED <<swapchain_manager, swapchain_objects, rs_pending, rs_calls,
                   rs_submits>>
    /\ SwUnchanged

\* device_wait_idle returns an error (the device is lost): unwrap panics
SW_DeviceWaitIdleFails ==
    /\ rs_pc = "device_wait_idle"
    /\ rs_pc' = "panicked"
    /\ UNCHANGED <<swapchain_manager, swapchain_objects, rs_pending, rs_log,
                   rs_calls, rs_submits>>
    /\ SwUnchanged

\* The surface capabilities are read and swapchain_manager.destroy(&self.device)
\* is called
SW_Destroy ==
    /\ rs_pc = "destroy"
    /\ rs_log' = rs_log \o RsLog(SwapchainManager_destroy_calls(swapchain_manager),
                                  rs_calls, rs_pending)
    /\ swapchain_objects' =
          swapchain_objects \ ObjectsOf(SwapchainManager_destroy_calls(swapchain_manager))
    /\ rs_pc' = "new"
    /\ UNCHANGED <<swapchain_manager, rs_pending, rs_calls, rs_submits>>
    /\ SwUnchanged

\* *swapchain_manager = SwapchainManager::new(..), and the call returns
SW_New ==
    /\ rs_pc = "new"
    /\ \E n \in 1 .. MaxSwapchainImages :
        \E sm \in {SwapchainManager_new(swapchain_manager.swapchain.gen + 1, n)} :
          /\ swapchain_manager' = sm
          /\ swapchain_objects' =
                swapchain_objects \cup ObjectsOf(SwapchainManager_new_calls(sm))
          /\ rs_log' = rs_log \o RsLog(SwapchainManager_new_calls(sm),
                                        rs_calls, rs_pending)
    /\ rs_pc' = "caller"
    /\ UNCHANGED <<rs_pending, rs_calls, rs_submits>>
    /\ SwUnchanged

\* create_swapchain returns an error: unwrap panics before anything is made
SW_NewFails ==
    /\ rs_pc = "new"
    /\ rs_pc' = "panicked"
    /\ UNCHANGED <<swapchain_manager, swapchain_objects, rs_pending, rs_log,
                   rs_calls, rs_submits>>
    /\ SwUnchanged

NextSwap ==
    \/ SW_SubmitFrame
    \/ SW_GpuComplete
    \/ SW_Call
    \/ SW_DeviceWaitIdle
    \/ SW_DeviceWaitIdleFails
    \/ SW_Destroy
    \/ SW_New
    \/ SW_NewFails

SpecSwap == InitSwap /\ [][NextSwap]_vars

\* ------------------------------------------------------------ the frame loop
\* VulkanEngine::advance_frame
advance_frame(cur, n) == (cur + 1) % n

\* Faulty variant: the fences are created unsignaled
FenceCreateSignaled_unset == FALSE

\* FrameDataManager::new: vk::FenceCreateInfo { flags: SIGNALED }
FenceCreateSignaled == TRUE

\* A handle of PerFrameData of a slot
Handle(kind, slot) == [kind |-> kind, slot |-> slot]

\* FrameDataManager::new: frame_data[i], the objects of slot i
PerFrameData(i) ==
    [frame_fence |-> Handle("frame_fence", i),
     image_acquired_semaphore |-> Handle("image_acquired_semaphore", i),
     render_complete_semaphore |-> Handle("render_complete_semaphore", i)]

\* The semaphore passed to acquire_next_image
AcquireSemaphore(fd) == fd.image_acquired_semaphore

\* Faulty variant: the submit waits on nothing
SubmitInfo_no_wait(fd) ==
    [wait_semaphores |-> {},
     signal_semaphores |-> {fd.render_complete_semaphore},
     fence |-> fd.frame_fence]

\* vk::SubmitInfo of the frame and the fence passed to queue_submit
SubmitInfo(fd) ==
    [wait_semaphores |-> {fd.image_acquired_semaphore},
     signal_semaphores |-> {fd.render_complete_semaphore},
     fence |-> fd.frame_fence]

\* vk::PresentInfoKHR of the frame
PresentInfo(fd) == [wait_semaphores |-> {fd.render_complete_semaphore}]

\* A synchronisation call: what it waits on, what it signals (reset_fences:
\* what it unsignals), and whether it returned Ok
SyncOp(op, waits, signals, ok) ==
    [op |-> op, waits |-> waits, signals |-> signals, ok |-> ok]

\* Faulty variant: the wait does not block
FenceWaitReturns_always(slot) == TRUE

\* wait_for_fences(&[*fence], true, u64::MAX) returns once the fence is signaled
FenceWaitReturns(slot) == frame_fences[slot]

\* Faulty variant: the guard is missing
ExitingGuard_off == FALSE

\* if exiting { return; }
ExitingGuard == exiting

\* Faulty variant: the tick is left out
NextPc_no_tick(p) ==
    CASE p = "wait_fence" -> "reset_fence"
      [] p = "reset_fence" -> "record"
      [] p = "tick" -> "record"
      [] p = "record" -> "submit"
      [] p = "submit" -> "present"
      [] p = "present" -> "advance"
      [] p = "advance" -> "events"

\* Faulty variant: present before submit
NextPc_present_first(p) ==
    CASE p = "wait_fence" -> "reset_fence"
      [] p = "reset_fence" -> "tick"
      [] p = "tick" -> "record"
      [] p = "record" -> "present"
      [] p = "present" -> "submit"
      [] p = "submit" -> "advance"
      [] p = "advance" -> "events"

\* The order of the statements of the frame body after the acquire loop
NextPc(p) ==
    CASE p = "wait_fence" -> "reset_fence"
      [] p = "reset_fence" -> "tick"
      [] p = "tick" -> "record"
      [] p = "record" -> "submit"
      [] p = "submit" -> "present"
      [] p = "present" -> "advance"
      [] p = "advance" -> "events"

\* Whether a submission that uses the objects of `slot` is still on the device
SlotPending(slot) == \E i \in DOMAIN gpu_pending : gpu_pending[i].slot = slot

\* A use of an object of the current slot by the control thread: whether the
\* wait on the slot's fence has returned in this iteration, whether this is
\* the first frame of the slot (its fence is as created, signaled, and nothing
\* was ever submitted on it), and whether a submission on the slot is pending.
SlotUse(object) ==
    [object |-> object,
     waited |-> \E i \in DOMAIN steps : steps[i] = "WaitFence",
     first_use |-> frame_count <= num_frames,
     prior_pending |-> SlotPending(frame)]

Init ==
    /\ \E n \in 1 .. MaxNumFrames :
        /\ num_frames = n
        /\ frame_queue = CleanupQueue_new(n)
        /\ frame_fences = [i \in 0 .. n - 1 |-> FenceCreateSignaled]
        /\ staging_buffer_per_frame = [i \in 0 .. n - 1 |-> Allocate(i + 1, 3)]
        /\ vertex_buffer = Allocate(n + 1, 3)
        /\ index_buffer = Allocate(n + 2, 3)
        /\ next_handle = n + 3
    /\ current_frame_index = 0
    /\ tick_count = 0
    /\ queue_count = 0
    /\ device_log = <<>>
    /\ last_call = [name |-> "new", handle |-> 0]
    /\ current_frame = 0
    /\ push_buffer = PushBuffer_new(3)
    /\ recreate_swapchain = FALSE
    /\ exiting = FALSE
    /\ pc = "events"
    /\ frame = 0
    /\ recorded = {}
    /\ gpu_pending = <<>>
    /\ in_flight = {}
    /\ ever_referenced = {}
    /\ frame_count = 0
    /\ steps = <<>>
    /\ slot_uses = {}
    /\ stale_acquires = 0
    /\ rebuilds = 0
    /\ last_event = "none"
    /\ swapchain_trace = <<>>
    /\ sync_ops = <<>>
    /\ staging_write = <<>>
    /\ commands = <<>>
    /\ AllocatorUnused
    /\ elem_size = VertexSize
    /\ PassUnused
    /\ BuffersUnused

\* Event::WindowEvent { event: WindowEvent::Resized(..) }
Resized ==
    /\ pc = "events"
    /\ recreate_swapchain' = TRUE
    /\ last_event' = "Resized"
    /\ UNCHANGED <<cqVars, libVars, num_frames, current_frame, frame_fences,
                   staging_buffer_per_frame, vertex_buffer, index_buffer,
                   push_buffer, next_handle, exiting, pc, frame, recorded, commands,
                   gpu_pending, in_flight, ever_referenced, frame_count, steps,
                   slot_uses, stale_acquires, rebuilds, swapchain_trace, sync_ops, staging_write>>

\* Event::WindowEvent { event: WindowEvent::CloseRequested }: exiting = true,
\* ControlFlow::Exit, then device_wait_idle
CloseRequested ==
    /\ pc = "events"
    /\ ~exiting
    /\ exiting' = TRUE
    /\ pc' = "close_wait_idle"
    /\ last_event' = "CloseRequested"
    /\ UNCHANGED <<cqVars, libVars, num_frames, current_frame, frame_fences,
                   staging_buffer_per_frame, vertex_buffer, index_buffer,
                   push_buffer, next_handle, recreate_swapchain, frame, recorded, commands,
                   gpu_pending, in_flight, ever_referenced, frame_count, steps,
                   slot_uses, stale_acquires, rebuilds, swapchain_trace, sync_ops, staging_write>>

\* vk_engine.device.device_wait_idle() of the shutdown returns
CloseWaitIdle ==
    /\ pc = "close_wait_idle"
    /\ gpu_pending = <<>>
    /\ pc' = "close_destroy"
    /\ UNCHANGED <<cqVars, libVars, num_frames, current_frame, frame_fences,
                   staging_buffer_per_frame, vertex_buffer, index_buffer,
                   push_buffer, next_handle, recreate_swapchain, exiting, frame,
                   recorded, commands, gpu_pending, in_flight, ever_referenced,
                   frame_count, steps, slot_uses, stale_acquires, rebuilds, swapchain_trace, sync_ops, staging_write,
                   last_event>>

\* The device calls of X::destroy for a buffer with a dedicated allocation
DedicatedDestroyCalls(b) ==
    << [call |-> "free_memory", handle |-> b.id, at |-> tick_count,
        by |-> "shutdown", bucket |-> -1, tick |-> tick_count],
       [call |-> "destroy_buffer", handle |-> b.id, at |-> tick_count,
        by |-> "shutdown", bucket |-> -1, tick |-> tick_count] >>

RECURSIVE StagingDestroyCalls(_)
StagingDestroyCalls(i) ==
    IF i >= num_frames THEN <<>>
    ELSE DedicatedDestroyCalls(staging_buffer_per_frame[i]) \o StagingDestroyCalls(i + 1)

\* The rest of the shutdown: the buffers in use are destroyed, then
\* cleanup_queue.destroy
CloseDestroy ==
    /\ pc = "close_destroy"
    /\ device_log' = device_log
                     \o DedicatedDestroyCalls(index_buffer)
                     \o StagingDestroyCalls(0)
                     \o DedicatedDestroyCalls(vertex_buffer)
                     \o destroy_calls(frame_queue, tick_count)
    /\ frame_queue' = destroy_queue(frame_queue)
    /\ last_call' = [name |-> "destroy", handle |-> 0]
    /\ pc' = "events"
    /\ UNCHANGED <<libVars, current_frame_index, tick_count, queue_count, num_frames,
                   current_frame, frame_fences, staging_buffer_per_frame,
                   vertex_buffer, index_buffer, push_buffer, next_handle,
                   recreate_swapchain, exiting, frame, recorded, commands, gpu_pending,
                   in_flight, ever_referenced, frame_count, steps, slot_uses,
                   stale_acquires, rebuilds, swapchain_trace, sync_ops, staging_write, last_event>>

\* The part of the history of swapchain calls a new frame starts from: the
\* result of the previous frame's queue_present, if there was one
LastPresent(trace) ==
    IF trace # <<>> /\ trace[Len(trace)].call = "present"
    THEN <<trace[Len(trace)]>>
    ELSE <<>>

\* Event::MainEventsCleared while exiting: return
MainEventsClearedExiting ==
    /\ pc = "events"
    /\ ExitingGuard
    /\ last_event' = "MainEventsCleared"
    /\ UNCHANGED <<cqVars, libVars, num_frames, current_frame, frame_fences,
                   staging_buffer_per_frame, vertex_buffer, index_buffer,
                   push_buffer, next_handle, recreate_swapchain, exiting, pc,
                   frame, recorded, commands, gpu_pending, in_flight, ever_referenced,
                   frame_count, steps, slot_uses, stale_acquires, rebuilds, swapchain_trace, sync_ops, staging_write>>

\* Event::MainEventsCleared: let frame = vk_engine.current_frame
MainEventsCleared ==
    /\ pc = "events"
    /\ ~ExitingGuard
    /\ frame_count < MaxFrameCount
    /\ frame' = current_frame
    /\ frame_count' = frame_count + 1
    /\ steps' = <<>>
    /\ slot_uses' = {}
    /\ stale_acquires' = 0
    /\ rebuilds' = 0
    /\ swapchain_trace' = LastPresent(swapchain_trace)
    /\ sync_ops' = <<>>
    /\ staging_write' = <<>>
    /\ recorded' = {}
    /\ commands' = <<>>
    /\ pc' = "acquire"
    /\ last_event' = "MainEventsCleared"
    /\ UNCHANGED <<cqVars, libVars, num_frames, current_frame, frame_fences,
                   staging_buffer_per_frame, vertex_buffer, index_buffer,
                   push_buffer, next_handle, recreate_swapchain, exiting,
                   gpu_pending, in_flight, ever_referenced>>

AcquireUnchanged ==
    UNCHANGED <<cqVars, libVars, num_frames, current_frame, frame_fences,
                staging_buffer_per_frame, vertex_buffer, index_buffer,
                push_buffer, next_handle, exiting, frame, recorded, commands,
                gpu_pending, in_flight, ever_referenced, frame_count, steps,
                last_event>>

\* What vkAcquireNextImageKHR and vkQueuePresentKHR may return here (the
\* timeout is u64::MAX); ERROR_DEVICE_LOST stands for every other error.
SwapchainResults ==
    {"SUCCESS", "SUBOPTIMAL_KHR", "ERROR_OUT_OF_DATE_KHR", "ERROR_DEVICE_LOST"}

\* swapchain_loader.acquire_next_image: a VkResult<(u32, bool)>, matched as
\* Ok((present_index, _)); the bool is the suboptimal report
acquire_next_image(vk_result) ==
    CASE vk_result = "SUCCESS" -> [ok |-> TRUE, suboptimal |-> FALSE, err |-> "none"]
      [] vk_result = "SUBOPTIMAL_KHR" -> [ok |-> TRUE, suboptimal |-> TRUE, err |-> "none"]
      [] OTHER -> [ok |-> FALSE, suboptimal |-> FALSE, err |-> vk_result]

\* swapchain_loader.queue_present: a VkResult<bool>, the bool is the suboptimal report
queue_present(vk_result) ==
    CASE vk_result = "SUCCESS" -> [ok |-> TRUE, suboptimal |-> FALSE, err |-> "none"]
      [] vk_result = "SUBOPTIMAL_KHR" -> [ok |-> TRUE, suboptimal |-> TRUE, err |-> "none"]
      [] OTHER -> [ok |-> FALSE, suboptimal |-> FALSE, err |-> vk_result]

\* Faulty variant: an out-of-date swapchain is retried without a rebuild.
AcquireArm_retry(r) ==
    IF r.ok THEN "break"
    ELSE IF r.err \in {"ERROR_OUT_OF_DATE_KHR", "SUBOPTIMAL_KHR"} THEN "retry"
    ELSE "panic"

\* Faulty variant: every error is taken for a stale swapchain.
AcquireArm_no_panic(r) ==
    IF r.ok THEN "break" ELSE "recreate"

\* The arms of the match on the result of acquire_next_image
AcquireArm(r) ==
    IF r.ok THEN "break"
    ELSE IF r.err \in {"ERROR_OUT_OF_DATE_KHR", "SUBOPTIMAL_KHR"} THEN "recreate"
    ELSE "panic"

\* Where the acquire loop goes after an arm
AcquirePc(arm) ==
    CASE arm = "break" -> "wait_fence"
      [] arm = "recreate" -> "recreate"
      [] arm = "retry" -> "acquire"
      [] arm = "panic" -> "panicked"

\* Faulty variant: the flag is not looked at.
SkipAcquire_never == FALSE

\* let mut recreate = recreate_swapchain; if !recreate { acquire .. }
SkipAcquire == recreate_swapchain

TraceEntry(call, result) == [call |-> call, result |-> result]

\* Top of the acquire loop with recreate_swapchain set: no acquire, rebuild
AcquireSkipped ==
    /\ pc = "acquire"
    /\ SkipAcquire
    /\ pc' = "recreate"
    /\ UNCHANGED <<recreate_swapchain, slot_uses, stale_acquires, rebuilds,
                   swapchain_trace, sync_ops, staging_write>>
    /\ AcquireUnchanged

\* acquire_next_image(.., image_acquired_semaphore, ..) on a device result
Acquire(vk_result) ==
    /\ pc = "acquire"
    /\ ~SkipAcquire
    /\ slot_uses' = slot_uses \cup {SlotUse("image_acquired_semaphore")}
    /\ swapchain_trace' = Append(swapchain_trace, TraceEntry("acquire", vk_result))
    /\ UNCHANGED staging_write
    /\ sync_ops' = Append(sync_ops,
                          SyncOp("acquire", {}, {AcquireSemaphore(PerFrameData(frame))},
                                 acquire_next_image(vk_result).ok))
    /\ pc' = AcquirePc(AcquireArm(acquire_next_image(vk_result)))
    /\ UNCHANGED <<recreate_swapchain, rebuilds>>
    /\ AcquireUnchanged

\* acquire_next_image returns Ok((present_index, false))
AcquireOk ==
    /\ Acquire("SUCCESS")
    /\ UNCHANGED stale_acquires

\* acquire_next_image returns Ok((present_index, true)): the swapchain is suboptimal
AcquireSuboptimal ==
    /\ Acquire("SUBOPTIMAL_KHR")
    /\ UNCHANGED stale_acquires

\* acquire_next_image returns Err(ERROR_OUT_OF_DATE_KHR)
AcquireStale ==
    /\ stale_acquires < MaxStaleAcquires
    /\ Acquire("ERROR_OUT_OF_DATE_KHR")
    /\ stale_acquires' = stale_acquires + 1

\* acquire_next_image returns another error: panic
AcquireError ==
    /\ Acquire("ERROR_DEVICE_LOST")
    /\ UNCHANGED stale_acquires

\* recreate_swapchain = false; vk_engine.recreate_swapchain(..), which waits
\* for the device to be idle and replaces the swapchain
RecreateSwapchain ==
    /\ pc = "recreate"
    /\ gpu_pending = <<>>
    /\ recreate_swapchain' = FALSE
    /\ rebuilds' = rebuilds + 1
    /\ swapchain_trace' = Append(swapchain_trace, TraceEntry("rebuild", "done"))
    /\ UNCHANGED <<sync_ops, staging_write>>
    /\ pc' = "acquire"
    /\ UNCHANGED <<slot_uses, stale_acquires>>
    /\ AcquireUnchanged

\* wait_for_fences on the fence of the slot returns
WaitFence ==
    /\ pc = "wait_fence"
    /\ FenceWaitReturns(frame)
    /\ in_flight' = {f \in in_flight : f.slot # frame}
    /\ steps' = Append(steps, "WaitFence")
    /\ UNCHANGED staging_write
    /\ sync_ops' = Append(sync_ops,
                          SyncOp("wait_for_fences", {PerFrameData(frame).frame_fence}, {}, TRUE))
    /\ pc' = NextPc(pc)
    /\ UNCHANGED <<cqVars, libVars, num_frames, current_frame, frame_fences,
                   staging_buffer_per_frame, vertex_buffer, index_buffer,
                   push_buffer, next_handle, recreate_swapchain, exiting, frame,
                   recorded, commands, gpu_pending, ever_referenced, frame_count,
                   slot_uses, stale_acquires, rebuilds, swapchain_trace, last_event>>

\* reset_fences on the fence of the slot
ResetFence ==
    /\ pc = "reset_fence"
    /\ frame_fences' = [frame_fences EXCEPT ![PerFrameData(frame).frame_fence.slot] = FALSE]
    /\ steps' = Append(steps, "ResetFence")
    /\ UNCHANGED staging_write
    /\ sync_ops' = Append(sync_ops,
                          SyncOp("reset_fences", {}, {PerFrameData(frame).frame_fence}, TRUE))
    /\ pc' = NextPc(pc)
    /\ UNCHANGED <<cqVars, libVars, num_frames, current_frame,
                   staging_buffer_per_frame, vertex_buffer, index_buffer,
                   push_buffer, next_handle, recreate_swapchain, exiting, frame,
                   recorded, commands, gpu_pending, in_flight, ever_referenced,
                   frame_count, slot_uses, stale_acquires, rebuilds, swapchain_trace, last_event>>

\* cleanup_queue.tick(&vk_engine.device)
Tick ==
    /\ pc = "tick"
    /\ frame_queue' = tick_queue(frame_queue, current_frame_index)
    /\ current_frame_index' = tick_index(frame_queue, current_frame_index)
    /\ device_log' = device_log \o
                     tick_calls(frame_queue, current_frame_index, tick_count + 1)
    /\ tick_count' = tick_count + 1
    /\ last_call' = [name |-> "tick", handle |-> 0]
    /\ steps' = Append(steps, "Tick")
    /\ pc' = NextPc(pc)
    /\ UNCHANGED <<libVars, queue_count, num_frames, current_frame, frame_fences,
                   staging_buffer_per_frame, vertex_buffer, index_buffer,
                   push_buffer, next_handle, recreate_swapchain, exiting, frame,
                   recorded, commands, gpu_pending, in_flight, ever_referenced,
                   frame_count, slot_uses, stale_acquires, rebuilds, swapchain_trace, sync_ops, staging_write, last_event>>

\* StagingBuffer::write(data, offset_in_element_count) on a buffer mapped with
\* `length` elements: the elements written are [first, end) of the mapping,
\* whatever the length of the mapping is (the copy is unchecked).
StagingBuffer_write(buf, data, offset_in_element_count) ==
    [buffer |-> buf.id, mapped |-> buf.length,
     first |-> offset_in_element_count,
     end |-> offset_in_element_count + Len(data)]

\* Faulty variant: the new buffer is allocated with the used length of the
\* push buffer, not with its capacity.
Resize_to_len(st, buf, pb) ==
    IF buf.length < Len(pb.data)
    THEN [fq |-> queue_dedicated(st.fq, current_frame_index,
                                 Entry(buf.id, tick_count), Entry(buf.id, tick_count)),
          next |-> st.next + 1,
          count |-> st.count + 1,
          buf |-> Allocate(st.next, pb_len(pb))]
    ELSE [fq |-> st.fq, next |-> st.next, count |-> st.count, buf |-> buf]

\* Faulty variant: the old buffer is dropped, not queued.
Resize_drops_old(st, buf, pb) ==
    IF buf.length < Len(pb.data)
    THEN [fq |-> st.fq, next |-> st.next + 1, count |-> st.count,
          buf |-> Allocate(st.next, pb_capacity(pb))]
    ELSE [fq |-> st.fq, next |-> st.next, count |-> st.count, buf |-> buf]

\* One `if buffer.length < push_buffer.data.len()` block of the frame body on
\* the state st = [fq, next, count]: the buffer is replaced by one of the push
\* buffer's capacity and the old one is queued.
Resize(st, buf, pb) ==
    IF buf.length < Len(pb.data)
    THEN [fq |-> queue_dedicated(st.fq, current_frame_index,
                                 Entry(buf.id, tick_count), Entry(buf.id, tick_count)),
          next |-> st.next + 1,
          count |-> st.count + 1,
          buf |-> Allocate(st.next, pb_capacity(pb))]
    ELSE [fq |-> st.fq, next |-> st.next, count |-> st.count, buf |-> buf]

\* cmd_pipeline_barrier(command_buffer, src_stage, dst_stage, .., memory barriers)
PipelineBarrier(src_stage, dst_stage, src_access, dst_access) ==
    [cmd |-> "pipeline_barrier", src_stage |-> src_stage, dst_stage |-> dst_stage,
     src_access |-> src_access, dst_access |-> dst_access, buffer |-> 0]

\* Any other recorded command; buffer is the buffer handle it reads or writes
\* (0 when it names none)
Command(name, buffer) ==
    [cmd |-> name, src_stage |-> "none", dst_stage |-> "none",
     src_access |-> "none", dst_access |-> "none", buffer |-> buffer]

\* Faulty variant: the copy is recorded before the first barrier.
UploadCommands_copy_first(staging, vertex, length) ==
    << Command("copy_buffer", vertex.id),
       PipelineBarrier("VERTEX_INPUT", "TRANSFER", "none", "none"),
       PipelineBarrier("TRANSFER", "VERTEX_INPUT",
                       "TRANSFER_WRITE", "VERTEX_ATTRIBUTE_READ") >>

\* The upload part of the frame's commands: the execution barrier, the copy from
\* the staging buffer to the vertex buffer (its unwrap panics on Err, so nothing
\* is recorded after a refused copy), the barrier with the memory barrier
UploadCommands(staging, vertex, length) ==
    << PipelineBarrier("VERTEX_INPUT", "TRANSFER", "none", "none") >>
    \o (IF copy_ok(staging, vertex, length)
        THEN << Command("copy_buffer", vertex.id),
                PipelineBarrier("TRANSFER", "VERTEX_INPUT",
                                "TRANSFER_WRITE", "VERTEX_ATTRIBUTE_READ") >>
        ELSE <<>>)

\* The render pass of the frame's commands
DrawCommands(vertex, index) ==
    << Command("begin_render_pass", 0),
       Command("bind_pipeline", 0),
       Command("set_viewport", 0),
       Command("set_scissor", 0),
       Command("bind_descriptor_sets", 0),
       Command("bind_vertex_buffers", vertex.id),
       Command("bind_index_buffer", index.id),
       Command("draw_indexed", vertex.id),
       Command("bind_pipeline", 0),
       Command("draw_indexed", vertex.id),
       Command("end_render_pass", 0) >>

\* The commands the frame body records into command_buffer, in order
FrameCommands(staging, vertex, index, length) ==
    IF copy_ok(staging, vertex, length)
    THEN UploadCommands(staging, vertex, length) \o DrawCommands(vertex, index)
    ELSE UploadCommands(staging, vertex, length)

\* From reset_command_buffer to end_command_buffer: the push buffer pass, the
\* three resize blocks, the staging write, the copy, the camera write, the draws
RecordCommands ==
    /\ pc = "record"
    /\ \E k \in VertexCounts :
        \E pass \in {start_pass(push_buffer, 0)} :
        \E pb \in {pass_finish(pass_push_all(pass, 1, k))} :
        \E s0 \in {[fq |-> frame_queue, next |-> next_handle, count |-> queue_count]} :
        \E s1 \in {Resize(s0, staging_buffer_per_frame[frame], pb)} :
        \E s2 \in {Resize(s1, vertex_buffer, pb)} :
        \E s3 \in {Resize(s2, index_buffer, pb)} :
            /\ push_buffer' = pb
            /\ staging_buffer_per_frame' =
                  [staging_buffer_per_frame EXCEPT ![frame] = s1.buf]
            /\ vertex_buffer' = s2.buf
            /\ index_buffer' = s3.buf
            /\ frame_queue' = s3.fq
            /\ next_handle' = s3.next
            /\ queue_count' = s3.count
            /\ last_call' = IF s3.count = queue_count THEN last_call
                            ELSE [name |-> "queue", handle |-> s3.next - 1]
            /\ recorded' = {s1.buf.id, s2.buf.id, s3.buf.id}
            /\ staging_write' = StagingBuffer_write(s1.buf, pb.data, 0)
            /\ commands' = FrameCommands(s1.buf, s2.buf, s3.buf, Len(pb.data))
            /\ pc' = IF copy_ok(s1.buf, s2.buf, Len(pb.data))
                     THEN NextPc(pc) ELSE "panicked"
    /\ slot_uses' = slot_uses \cup {SlotUse("command_buffer"),
                                    SlotUse("staging_buffer"),
                                    SlotUse("camera_buffer")}
    /\ steps' = Append(steps, "RecordCommands")
    /\ UNCHANGED <<libVars, current_frame_index, tick_count, device_log, num_frames,
                   current_frame, frame_fences, recreate_swapchain, exiting,
                   frame, gpu_pending, in_flight, ever_referenced, frame_count,
                   stale_acquires, rebuilds, swapchain_trace, sync_ops, last_event>>

\* queue_submit(present_queue, &[submit_info], *fence)
Submit ==
    /\ pc = "submit"
    /\ LET info == SubmitInfo(PerFrameData(frame))
           sub == [no |-> frame_count, slot |-> info.fence.slot, refs |-> recorded]
       IN  /\ gpu_pending' = Append(gpu_pending, sub)
           /\ in_flight' = in_flight \cup {sub}
           /\ UNCHANGED staging_write
           /\ sync_ops' = Append(sync_ops,
                                 SyncOp("queue_submit", info.wait_semaphores,
                                        info.signal_semaphores \cup {info.fence}, TRUE))
    /\ ever_referenced' = ever_referenced \cup recorded
    /\ steps' = Append(steps, "Submit")
    /\ pc' = NextPc(pc)
    /\ UNCHANGED <<cqVars, libVars, num_frames, current_frame, frame_fences,
                   staging_buffer_per_frame, vertex_buffer, index_buffer,
                   push_buffer, next_handle, recreate_swapchain, exiting, frame,
                   recorded, commands, frame_count, slot_uses, stale_acquires, rebuilds, swapchain_trace,
                   last_event>>

PresentUnchanged ==
    UNCHANGED <<cqVars, libVars, num_frames, current_frame, frame_fences,
                staging_buffer_per_frame, vertex_buffer, index_buffer,
                push_buffer, next_handle, exiting, frame, recorded, commands, gpu_pending,
                in_flight, ever_referenced, frame_count, slot_uses,
                stale_acquires, rebuilds, last_event>>

\* Faulty variant: every error is taken for a stale swapchain.
PresentArm_no_panic(r) ==
    IF r.ok /\ ~r.suboptimal THEN "ok" ELSE "stale"

\* The arms of the match on the result of queue_present: Ok(false); Ok(true),
\* Err(ERROR_OUT_OF_DATE_KHR) or Err(SUBOPTIMAL_KHR); Err(e)
PresentArm(r) ==
    IF r.ok /\ ~r.suboptimal THEN "ok"
    ELSE IF r.ok \/ r.err \in {"ERROR_OUT_OF_DATE_KHR", "SUBOPTIMAL_KHR"} THEN "stale"
    ELSE "panic"

\* queue_present(present_queue, &present_info) on a device result
Present(vk_result) ==
    LET arm == PresentArm(queue_present(vk_result))
    IN  /\ pc = "present"
        /\ swapchain_trace' = Append(swapchain_trace, TraceEntry("present", vk_result))
        /\ UNCHANGED staging_write
        /\ sync_ops' = Append(sync_ops,
                              SyncOp("queue_present",
                                     PresentInfo(PerFrameData(frame)).wait_semaphores, {},
                                     queue_present(vk_result).ok))
        /\ recreate_swapchain' = IF arm = "stale" THEN TRUE ELSE recreate_swapchain
        /\ steps' = Append(steps, "Present")
        /\ pc' = IF arm = "panic" THEN "panicked" ELSE NextPc(pc)
        /\ PresentUnchanged

\* queue_present returns Ok(false)
PresentOk ==
    /\ pc = "present"
    /\ Present("SUCCESS")

\* queue_present returns Ok(true) or Err(ERROR_OUT_OF_DATE_KHR)
PresentStale ==
    /\ pc = "present"
    /\ \E vk_result \in {"SUBOPTIMAL_KHR", "ERROR_OUT_OF_DATE_KHR"} : Present(vk_result)

\* queue_present returns another error: panic
PresentError ==
    /\ pc = "present"
    /\ Present("ERROR_DEVICE_LOST")

\* vk_engine.advance_frame(), the end of the closure
AdvanceFrame ==
    /\ pc = "advance"
    /\ current_frame' = advance_frame(current_frame, num_frames)
    /\ steps' = Append(steps, "advance")
    /\ pc' = NextPc(pc)
    /\ UNCHANGED <<cqVars, libVars, num_frames, frame_fences, staging_buffer_per_frame,
                   vertex_buffer, index_buffer, push_buffer, next_handle,
                   recreate_swapchain, exiting, frame, recorded, commands, gpu_pending,
                   in_flight, ever_referenced, frame_count, slot_uses,
                   stale_acquires, rebuilds, swapchain_trace, sync_ops, staging_write, last_event>>

\* The device completes the oldest submission and signals its fence
GpuComplete ==
    /\ gpu_pending # <<>>
    /\ frame_fences' = [frame_fences EXCEPT ![Head(gpu_pending).slot] = TRUE]
    /\ gpu_pending' = Tail(gpu_pending)
    /\ UNCHANGED <<cqVars, libVars, num_frames, current_frame, staging_buffer_per_frame,
                   vertex_buffer, index_buffer, push_buffer, next_handle,
                   recreate_swapchain, exiting, pc, frame, recorded, commands, in_flight,
                   ever_referenced, frame_count, steps, slot_uses,
                   stale_acquires, rebuilds, swapchain_trace, sync_ops, staging_write, last_event>>

Next ==
    \/ Resized
    \/ CloseRequested
    \/ CloseWaitIdle
    \/ CloseDestroy
    \/ MainEventsClearedExiting
    \/ MainEventsCleared
    \/ AcquireSkipped
    \/ AcquireOk
    \/ AcquireSuboptimal
    \/ AcquireStale
    \/ AcquireError
    \/ RecreateSwapchain
    \/ WaitFence
    \/ ResetFence
    \/ Tick
    \/ RecordCommands
    \/ Submit
    \/ PresentOk
    \/ PresentStale
    \/ PresentError
    \/ AdvanceFrame
    \/ GpuComplete

Spec == Init /\ [][Next]_vars

\* The statements of the frame body: the closure runs them one after the other
FrameBody ==
    \/ AcquireSkipped
    \/ AcquireOk
    \/ AcquireSuboptimal
    \/ AcquireStale
    \/ AcquireError
    \/ RecreateSwapchain
    \/ WaitFence
    \/ ResetFence
    \/ Tick
    \/ RecordCommands
    \/ Submit
    \/ PresentOk
    \/ PresentStale
    \/ PresentError
    \/ AdvanceFrame

\* The frame loop with a control thread that goes on whenever its next
\* statement can return, and a device that completes what was submitted
SpecLive == Init /\ [][Next]_vars /\ WF_vars(FrameBody) /\ WF_vars(GpuComplete)

\* ------------------------------------------------- claims on the queue alone
NumBuckets == cq_num_frames(frame_queue)

\* The entries of a list of a bucket, and the calls of a log, counted by handle.
CountEntries(list, h) == Cardinality({i \in DOMAIN list : list[i].handle = h})

CountCalls(log, call, h) ==
    Cardinality({i \in DOMAIN log : log[i].call = call /\ log[i].handle = h})

HandlesOf(list) == {list[i].handle : i \in DOMAIN list}

\* The device calls made by the step being taken.
NewCalls == SubSeq(device_log', Len(device_log) + 1, Len(device_log'))

QueuedEntries ==
    UNION {{frame_queue[b].buffers[i] : i \in DOMAIN frame_queue[b].buffers}
           \cup {frame_queue[b].memory[i] : i \in DOMAIN frame_queue[b].memory}
           : b \in DOMAIN frame_queue}

\* C2: with N buckets, a queued resource is not destroyed by any of the first
\* N-1 ticks after it was queued and is destroyed by the N-th: every call a
\* tick makes is for an entry queued exactly N ticks before, and no entry
\* stays in the queue once N ticks have been made since it was queued.
C2_DestroyedByNthTick ==
    /\ \A i \in DOMAIN device_log :
        device_log[i].by = "tick" =>
            device_log[i].tick - device_log[i].at = NumBuckets
    /\ \A e \in QueuedEntries : tick_count - e.at < NumBuckets

\* N = 2: a resource survived the tick after it was queued and was destroyed
\* by the tick after that.
C2_Witness ==
    /\ NumBuckets = 2
    /\ \E i \in DOMAIN device_log :
        /\ device_log[i].by = "tick"
        /\ device_log[i].tick = device_log[i].at + 2

IsQueueStep == queue_count' = queue_count + 1

\* What a queue step does to the buckets and the index.
C7_QueueStep ==
    LET b == (current_frame_index - 1 + NumBuckets) % NumBuckets
        e == Entry(last_call'.handle, tick_count)
        n == last_call'.name
    IN  IsQueueStep =>
        /\ n \in {"queue_buffer", "queue_memory", "queue"}
        /\ frame_queue'[b].buffers =
              IF n \in {"queue_buffer", "queue"}
              THEN Append(frame_queue[b].buffers, e) ELSE frame_queue[b].buffers
        /\ frame_queue'[b].memory =
              IF n \in {"queue_memory", "queue"}
              THEN Append(frame_queue[b].memory, e) ELSE frame_queue[b].memory
        /\ \A o \in DOMAIN frame_queue : o # b => frame_queue'[o] = frame_queue[o]
        /\ DOMAIN frame_queue' = DOMAIN frame_queue
        /\ current_frame_index' = current_frame_index

\* C7: queue appends the resource to bucket (current - 1 + N) mod N and
\* changes neither the current index nor any other bucket (queue_buffer
\* appends to the bucket's buffers, queue_memory to its memory, queue of a
\* buffer with a dedicated allocation to both).
C7_QueueAppendsToPreviousBucket == [][C7_QueueStep]_vars

\* A memory handle sits in bucket 2 of 3 while the current index is 0, with a
\* buffer queued earlier in another bucket.
C7_Witness ==
    /\ NumBuckets = 3
    /\ current_frame_index = 0
    /\ last_call.name = "queue_memory"
    /\ Len(frame_queue[2].memory) = 1
    /\ Len(frame_queue[1].buffers) = 1

IsTickStep == tick_count' = tick_count + 1

\* What a tick step does to the device, the buckets and the index.
C8_TickStep ==
    LET c == current_frame_index
        old == frame_queue[c]
    IN  IsTickStep =>
        /\ Len(NewCalls) = Len(old.buffers) + Len(old.memory)
        /\ \A i \in DOMAIN NewCalls : NewCalls[i].by = "tick"
        /\ \A h \in HandlesOf(old.buffers) :
              CountCalls(NewCalls, "destroy_buffer", h) = CountEntries(old.buffers, h)
        /\ \A h \in HandlesOf(old.memory) :
              CountCalls(NewCalls, "free_memory", h) = CountEntries(old.memory, h)
        /\ frame_queue'[c] = QueuedFrame_new
        /\ \A o \in DOMAIN frame_queue : o # c => frame_queue'[o] = frame_queue[o]
        /\ DOMAIN frame_queue' = DOMAIN frame_queue
        /\ current_frame_index' = (c + 1) % NumBuckets

\* C8: tick destroys every resource of the bucket of the current index (one
\* destroy_buffer per buffer entry, one free_memory per memory entry, and no
\* other call), leaves that bucket empty and every other bucket unchanged, and
\* sets the current index to (current + 1) mod N.
C8_TickDestroysCurrentBucket == [][C8_TickStep]_vars

\* A tick of a 3-bucket queue has destroyed a buffer and a memory, the index
\* has wrapped around to 0 and another bucket still holds an entry.
C8_Witness ==
    /\ NumBuckets = 3
    /\ last_call.name = "tick"
    /\ current_frame_index = 0
    /\ \E i, j \in DOMAIN device_log :
        /\ device_log[i].by = "tick" /\ device_log[i].call = "destroy_buffer"
        /\ device_log[j].by = "tick" /\ device_log[j].call = "free_memory"
        /\ device_log[i].tick = tick_count /\ device_log[j].tick = tick_count
    /\ QueuedEntries # {}

\* ------------------------------------------------ claims on the frame loop
\* Handles destroyed or freed by a tick of the cleanup queue.
TickDestroyed ==
    {device_log[i].handle : i \in {j \in DOMAIN device_log : device_log[j].by = "tick"}}

\* C1: under every interleaving of frame steps and device completion, no tick
\* destroys a buffer or memory that a frame uses which has been submitted and
\* whose fence has not been waited on since (nor one a pending submission uses).
C1_TickSparesFramesInFlight ==
    /\ \A f \in in_flight : f.refs \cap TickDestroyed = {}
    /\ \A i \in DOMAIN gpu_pending : gpu_pending[i].refs \cap TickDestroyed = {}

\* A tick has just destroyed a buffer that a submitted frame used, while other
\* frames are in flight and the device still works on one.
C1_Witness ==
    /\ last_call.name = "tick"
    /\ \E i \in DOMAIN device_log :
        /\ device_log[i].by = "tick"
        /\ device_log[i].tick = tick_count
        /\ device_log[i].handle \in ever_referenced
    /\ in_flight # {}
    /\ gpu_pending # <<>>

\* C3: no object of the current slot (acquire-signal semaphore, command
\* buffer, staging buffer, camera buffer) is used by the control thread for
\* the new frame before the wait on the slot's fence has returned (a slot
\* nothing was submitted on yet has its fence signaled from creation), and the
\* semaphore is not handed to acquire while the frame submitted on the slot N
\* frames earlier may still be executing.
C3_SlotObjectsUsedAfterFenceWait ==
    \A u \in slot_uses : (u.waited \/ u.first_use) /\ ~u.prior_pending

AfterFenceWait == pc \in {"reset_fence", "tick", "record", "submit"}

\* C4: at most N frames are submitted with their fence not yet waited on, and
\* between the return of the fence wait and the submit at most N-1 earlier
\* frames, none of them on the current slot, are unfinished on the device.
C4_AtMostNFramesInFlight ==
    /\ Cardinality(in_flight) <= num_frames
    /\ Len(gpu_pending) <= num_frames
    /\ AfterFenceWait =>
        /\ Len(gpu_pending) <= num_frames - 1
        /\ ~SlotPending(frame)
        /\ Cardinality(in_flight) <= num_frames - 1

\* The control thread is stalled in the fence wait with N = 2 frames in flight.
C4_Witness ==
    /\ num_frames = 2
    /\ pc = "wait_fence"
    /\ ~frame_fences[frame]
    /\ Cardinality(in_flight) = 2
    /\ Len(gpu_pending) = 2

CountStep(name) == Cardinality({i \in DOMAIN steps : steps[i] = name})

InIteration ==
    pc \in {"acquire", "recreate", "wait_fence", "reset_fence", "tick", "record",
            "submit", "present", "advance", "panicked"}

\* Every iteration before the running one has ticked once, and the running
\* one has ticked once from its Tick step on.
C5_OneTickPerFrame ==
    /\ CountStep("Tick") <= 1
    /\ tick_count =
          IF InIteration /\ CountStep("Tick") = 0 THEN frame_count - 1 ELSE frame_count
    /\ pc \in {"record", "submit", "present", "advance"} => CountStep("Tick") = 1

\* The tick comes right after the fence wait and reset, before anything is
\* queued or recorded; retries and rebuilds do not tick.
C5_TickStep ==
    /\ tick_count' # tick_count =>
        /\ tick_count' = tick_count + 1
        /\ steps = <<"WaitFence", "ResetFence">>
        /\ recorded = {}
    /\ (queue_count' # queue_count \/ (recorded' # recorded /\ recorded' # {})) =>
          CountStep("Tick") = 1
    /\ (rebuilds' # rebuilds \/ stale_acquires' # stale_acquires) =>
          tick_count' = tick_count

\* C5: each iteration of the frame loop calls tick exactly once, after the
\* wait on the slot's fence has returned and before any resource is queued or
\* any command recorded; acquire retries and swapchain rebuilds neither add
\* nor remove a tick.
C5_TickOncePerIteration == []C5_OneTickPerFrame /\ [][C5_TickStep]_vars

\* A second frame that rebuilt the swapchain twice around a stale acquire has
\* completed with its one tick.
C5_Witness ==
    /\ pc = "events"
    /\ frame_count = 2
    /\ tick_count = 2
    /\ rebuilds = 2
    /\ stale_acquires = 1
    /\ CountStep("Tick") = 1

FrameSteps ==
    <<"WaitFence", "ResetFence", "Tick", "RecordCommands", "Submit", "Present",
      "advance">>

IsPrefix(a, b) == Len(a) <= Len(b) /\ a = SubSeq(b, 1, Len(a))

C6_StepOrder ==
    /\ IsPrefix(steps, FrameSteps)
    /\ current_frame \in 0 .. num_frames - 1
    /\ pc = "events" => current_frame = frame_count % num_frames
    /\ InIteration /\ steps # FrameSteps =>
          /\ frame = current_frame
          /\ frame = (frame_count - 1) % num_frames

C6_AdvanceStep ==
    /\ current_frame' # current_frame => steps' = FrameSteps /\ steps # steps'
    /\ steps' = FrameSteps /\ steps # steps' =>
          current_frame' = (current_frame + 1) % num_frames

\* C6: every frame runs its steps in the order WaitFence (wait, then reset),
\* Tick, RecordCommands, Submit, Present, advance; the current slot index
\* advances by exactly one modulo N once per frame, after the submission, and
\* is always in 0..N-1.
C6_FrameStepsInOrder == []C6_StepOrder /\ [][C6_AdvanceStep]_vars

\* With 3 slots, the third frame has run all its steps and the index has
\* wrapped around to 0.
C6_Witness ==
    /\ num_frames = 3
    /\ frame_count = 3
    /\ steps = FrameSteps
    /\ current_frame = 0
    /\ pc = "events"

AllBucketsEmpty == \A b \in DOMAIN frame_queue : frame_queue[b] = QueuedFrame_new

DestroyCallsOf(log) == {i \in DOMAIN log : log[i].by = "destroy"}

TotalQueued ==
    LET RECURSIVE Sum(_)
        Sum(b) == IF b >= NumBuckets THEN 0
                  ELSE Len(frame_queue[b].buffers) + Len(frame_queue[b].memory) + Sum(b + 1)
    IN  Sum(0)

C9_DestroyStep ==
    /\ (last_call'.name = "destroy" /\ last_call.name # "destroy") =>
        /\ pc = "close_destroy"
        /\ exiting
        /\ gpu_pending = <<>>
        /\ Cardinality(DestroyCallsOf(NewCalls)) = TotalQueued
        /\ \A b \in DOMAIN frame_queue :
            /\ \A i \in DOMAIN frame_queue[b].buffers :
                \E j \in DestroyCallsOf(NewCalls) :
                    /\ NewCalls[j].call = "destroy_buffer"
                    /\ NewCalls[j].handle = frame_queue[b].buffers[i].handle
                    /\ NewCalls[j].bucket = b
            /\ \A i \in DOMAIN frame_queue[b].memory :
                \E j \in DestroyCallsOf(NewCalls) :
                    /\ NewCalls[j].call = "free_memory"
                    /\ NewCalls[j].handle = frame_queue[b].memory[i].handle
                    /\ NewCalls[j].bucket = b
        /\ \A b \in DOMAIN frame_queue' : frame_queue'[b] = QueuedFrame_new
    /\ last_call.name = "destroy" =>
        /\ pc' = "events"
        /\ UNCHANGED <<cqVars, frame_count, steps, gpu_pending, in_flight>>

C9_AfterDestroy ==
    last_call.name = "destroy" => exiting /\ pc = "events" /\ AllBucketsEmpty

\* C9: CleanupQueue::destroy destroys every resource of every bucket whatever
\* the current index and leaves all buckets empty; the application calls it
\* only in the shutdown, after the wait for device idle has returned, and runs
\* no frame after it.
C9_DestroyAllAtShutdown == []C9_AfterDestroy /\ [][C9_DestroyStep]_vars

\* The shutdown of a 3-slot loop has destroyed the entries of two buckets, and
\* a MainEventsCleared has arrived since.
C9_Witness ==
    /\ num_frames = 3
    /\ last_call.name = "destroy"
    /\ last_event = "MainEventsCleared"
    /\ current_frame_index = 2
    /\ \E i, j \in DestroyCallsOf(device_log) :
        device_log[i].bucket = 0 /\ device_log[j].bucket = 1

\* The buckets other than b are unchanged and b has gained entries.
QueuedOnlyInto(b) ==
    /\ \A o \in DOMAIN frame_queue : o # b => frame_queue'[o] = frame_queue[o]
    /\ Len(frame_queue'[b].buffers) > Len(frame_queue[b].buffers)
    /\ Len(frame_queue'[b].memory) > Len(frame_queue[b].memory)

\* C10 as stated: a resource queued while the frame of slot F is recorded goes
\* to the bucket of the previous slot, (F - 1) mod N.
C10_QueuedIntoPreviousSlot ==
    [][queue_count' # queue_count =>
          QueuedOnlyInto((frame - 1 + num_frames) % num_frames)]_vars

C10_TickCalls ==
    \A i \in DOMAIN device_log :
        device_log[i].by = "tick" =>
            /\ device_log[i].bucket = (device_log[i].at - 1) % num_frames
            /\ device_log[i].tick = device_log[i].at + num_frames

\* C10, amended: a resource queued while the frame of slot F is recorded goes
\* to bucket F, the frame's own slot (one before the queue's current index,
\* which the frame's tick has moved to (F + 1) mod N), and is destroyed only
\* by the tick of the next frame of slot F, N ticks after it was queued.
C10_QueuedIntoOwnSlot ==
    /\ [][queue_count' # queue_count => QueuedOnlyInto(frame)]_vars
    /\ []C10_TickCalls

\* With 3 slots, the tick of frame 5 has destroyed what frame 2 (slot 1) queued.
C10_Witness ==
    /\ num_frames = 3
    /\ \E i \in DOMAIN device_log :
        /\ device_log[i].by = "tick"
        /\ device_log[i].bucket = 1
        /\ device_log[i].at = 2
        /\ device_log[i].tick = 5

\* ------------------------------------------------- LinearAllocator claims
\* The least multiple of alignment that is >= cursor, in unbounded arithmetic.
LeastMultipleAtLeast(alignment, cursor) ==
    CHOOSE m \in cursor .. cursor + alignment - 1 : m % alignment = 0

IsAllocateResult == last_alloc.result \in {"Ok", "OutOfMemory", "panic"}

\* C11: allocate(size, alignment), with aligned the least multiple of alignment
\* >= cursor, succeeds iff aligned + size <= total size; on success it returns
\* offset = aligned and the requested size and sets the cursor to
\* aligned + size; otherwise it returns OutOfMemory and leaves the cursor
\* unchanged.
C11_AllocateSucceedsIffFits ==
    IsAllocateResult =>
        LET aligned == LeastMultipleAtLeast(last_alloc.alignment, last_alloc.before)
            fits == aligned + last_alloc.size <= allocator.size
        IN  /\ (last_alloc.result = "Ok") <=> fits
            /\ fits => /\ last_alloc.offset = aligned
                       /\ last_alloc.returned_size = last_alloc.size
                       /\ allocator.free_section_start = aligned + last_alloc.size
            /\ ~fits => /\ last_alloc.result = "OutOfMemory"
                        /\ allocator.free_section_start = last_alloc.before

C12_OffsetsOrdered ==
    /\ \A i \in DOMAIN sub_allocations :
          sub_allocations[i].offset % sub_allocations[i].alignment = 0
    /\ \A i, j \in DOMAIN sub_allocations :
          i < j => sub_allocations[i].offset <= sub_allocations[j].offset

C12_CursorStep == allocator'.free_section_start >= allocator.free_section_start

\* C12: over any sequence of allocate calls on one allocator, the offsets of
\* successive successful allocations are non-decreasing, every returned offset
\* is a multiple of the alignment requested for it, and free_section_start
\* never decreases.
C12_OffsetsAndCursorMonotonic == []C12_OffsetsOrdered /\ [][C12_CursorStep]_vars

\* The code has no reset; a step of it would be recorded as "reset".
C13_ResetStep == last_alloc'.result = "reset"

C13_CursorStep ==
    /\ C13_ResetStep => allocator'.free_section_start = 0
    /\ allocator'.free_section_start < allocator.free_section_start => C13_ResetStep

\* C13: a reset returns the cursor to zero, and between resets the cursor is
\* monotonically non-decreasing: only a reset moves the cursor back, and
\* allocation starts again at offset 0 only after one.
C13_CursorMovesBackOnlyByReset == [][C13_CursorStep]_vars

\* ------------------------------------------------------ PushBuffer claims
HasBuffer == pb_pc \in {"idle", "pass"} \/ (pb_pc = "panicked" /\ last_op.op = "push")

IsStartPassStep == pass_count' = pass_count + 1

C14_StartPassStep ==
    IsStartPassStep =>
        /\ (last_op'.result = "Err") <=> (last_op'.arg > pb_capacity(push_buffer))
        /\ last_op'.result = "Err" => push_buffer' = push_buffer

\* C14: start_pass(start_index) returns an error iff start_index > capacity;
\* start_index = capacity is accepted; a rejected start_pass leaves length,
\* capacity and data unchanged.
C14_StartPassRejectsOnlyAboveCapacity == [][C14_StartPassStep]_vars

\* C15: a successful start_pass(start_index) sets len() to start_index at once;
\* len() does not change during pushes and, if the pass is dropped without
\* finish, stays start_index however many elements were pushed.
C15_LenIsStartIndexUntilFinish ==
    /\ last_op.op = "start_pass" /\ last_op.result = "Ok" =>
          /\ pass_start.start_index = last_op.arg
          /\ pb_len(push_buffer) = last_op.arg
    /\ last_op.op \in {"push", "drop"} =>
          pb_len(push_buffer) = pass_start.start_index

\* A pass started above 0 is dropped after two or more pushes.
C15_Witness ==
    /\ last_op.op = "drop"
    /\ Len(pushed) >= 2
    /\ pass_start.start_index > 0
    /\ pb_len(push_buffer) = pass_start.start_index

\* What finish leaves for a pass started at s that pushed k elements.
FinishedPassHolds ==
    LET s == pass_start.start_index
        k == Len(pushed)
        old == pass_start.buffer.data
    IN  /\ pb_len(push_buffer) = s + k
        /\ \A i \in 1 .. k : /\ s + i \in DOMAIN push_buffer.data
                             /\ push_buffer.data[s + i] = pushed[i]
        /\ \A i \in 1 .. s : i \in DOMAIN old =>
                                /\ i \in DOMAIN push_buffer.data
                                /\ push_buffer.data[i] = old[i]

\* C16: for any buffer state and any start index s accepted by start_pass, a
\* pass started at s that pushes k >= 0 elements and then finishes yields
\* len() = s + k, data[s .. s+k) equal to the pushed elements in order, and
\* data[0 .. s) unchanged: every one of the k pushes stores its element, and
\* finish commits them.
C16_PassWritesFromStartIndex ==
    /\ last_op.op = "push" => /\ last_op.result = "Ok"
                              /\ pushed[Len(pushed)] = last_op.arg
    /\ last_op.op = "finish" => FinishedPassHolds

\* C17: starting from a buffer of capacity c, a single pass from index 0 that
\* pushes k > c elements and finishes yields length k, capacity >= k, and
\* stored data equal to the pushed sequence in order.
C17_PassFromZeroGrowsBuffer ==
    (HasBuffer /\ last_op.op \in {"push", "finish"} /\ pass_start.start_index = 0) =>
        LET k == Len(pushed)
        IN  /\ pb_pc # "panicked"
            /\ (last_op.op = "finish" /\ k > pb_capacity(pass_start.buffer)) =>
                  /\ pb_len(push_buffer) = k
                  /\ pb_capacity(push_buffer) >= k
                  /\ Len(push_buffer.data) >= k
                  /\ SubSeq(push_buffer.data, 1, k) = pushed

C18_CapacityStep ==
    (pb_pc \in {"idle", "pass"}) =>
        LET cap == pb_capacity(push_buffer)
            grows == last_op'.op = "push" /\ push_count' # push_count /\ pass_index = cap
        IN  /\ grows => pb_capacity(push_buffer') = 2 * cap
            /\ ~grows => pb_capacity(push_buffer') = cap

\* C18: the capacity changes only inside push, only when the write cursor
\* equals the current capacity, and then to exactly twice its previous value;
\* start_pass, finish and pushes that fit leave it unchanged.
C18_CapacityOnlyDoublesInPush == [][C18_CapacityStep]_vars

\* C19: in every reachable state len() <= capacity(), the write cursor of an
\* active pass is <= capacity before each push, and every push writes at an
\* index inside the data after the optional doubling.
C19_WritesStayInsideData ==
    HasBuffer =>
        /\ pb_len(push_buffer) <= pb_capacity(push_buffer)
        /\ pb_pc = "pass" => pass_index <= pb_capacity(push_buffer)
        /\ last_op.op = "push" => /\ last_op.result # "panic"
                                  /\ pass_index <= Len(push_buffer.data)

\* C20: PushBuffer::new(c) requires c > 0 (c = 0 fails the assertion and no
\* buffer is made) and for c > 0 returns a buffer with len() = 0 and
\* capacity() = c.
C20_NewRequiresPositiveCapacity ==
    last_op.op = "new" =>
        IF last_op.arg > 0
        THEN /\ pb_pc = "idle"
             /\ last_op.result = "Ok"
             /\ pb_len(push_buffer) = 0
             /\ pb_capacity(push_buffer) = last_op.arg
             /\ Len(push_buffer.data) = last_op.arg
        ELSE /\ pb_pc = "panicked"
             /\ last_op.result = "panic"
             /\ push_buffer = <<>>

\* new(0) has been called.
C20_Witness ==
    /\ last_op.op = "new"
    /\ last_op.arg = 0
    /\ pb_pc = "panicked"

\* ------------------------------------------------- C21..C24: stale swapchain
\* The results that report a stale swapchain
StaleResults == {"SUBOPTIMAL_KHR", "ERROR_OUT_OF_DATE_KHR"}

\* The swapchain call the step has just made, if it made one
MadeCall(call) ==
    /\ swapchain_trace' # swapchain_trace
    /\ Len(swapchain_trace') = Len(swapchain_trace) + 1
    /\ swapchain_trace'[Len(swapchain_trace')].call = call

LastResult == swapchain_trace'[Len(swapchain_trace')].result

\* C21: whenever acquire_next_image reports a stale swapchain (out of date or
\* suboptimal), the frame loop rebuilds the swapchain next and then acquires
\* again in the same frame.
C21_StaleAcquireRebuildsAndRetries ==
    \A i \in DOMAIN swapchain_trace :
        (/\ swapchain_trace[i].call = "acquire"
         /\ swapchain_trace[i].result \in StaleResults) =>
            /\ IF i = Len(swapchain_trace)
               THEN pc = "recreate"
               ELSE swapchain_trace[i + 1].call = "rebuild"
            /\ i + 1 < Len(swapchain_trace) => swapchain_trace[i + 2].call = "acquire"

C22_OneRebuildBetweenAcquires ==
    \A i, j \in DOMAIN swapchain_trace :
        (/\ i < j
         /\ swapchain_trace[i].call = "acquire"
         /\ swapchain_trace[j].call = "acquire"
         /\ \A k \in i + 1 .. j - 1 : swapchain_trace[k].call # "acquire") =>
            Cardinality({k \in i + 1 .. j - 1 : swapchain_trace[k].call = "rebuild"}) = 1

C22_StaleStep ==
    ((MadeCall("acquire") \/ MadeCall("present")) /\ LastResult \in StaleResults) =>
        pc' # "panicked"

\* C22: a stale report of acquire or present never aborts the loop, and between
\* two consecutive acquire attempts of one frame there is exactly one rebuild.
C22_StaleNeverAbortsOneRebuildPerRetry ==
    []C22_OneRebuildBetweenAcquires /\ [][C22_StaleStep]_vars

\* A frame has acquired, rebuilt and acquired again.
C22_Witness ==
    \E i \in DOMAIN swapchain_trace :
        /\ i + 2 <= Len(swapchain_trace)
        /\ swapchain_trace[i].call = "acquire"
        /\ swapchain_trace[i].result = "ERROR_OUT_OF_DATE_KHR"
        /\ swapchain_trace[i + 1].call = "rebuild"
        /\ swapchain_trace[i + 2].call = "acquire"
        /\ pc = "wait_fence"

C23_Marked ==
    /\ last_event = "Resized" => recreate_swapchain
    /\ (/\ swapchain_trace # <<>>
        /\ swapchain_trace[1].call = "present"
        /\ swapchain_trace[1].result \in StaleResults
        /\ Len(swapchain_trace) >= 2) =>
            /\ swapchain_trace[2].call = "rebuild"
            /\ Len(swapchain_trace) >= 3 => swapchain_trace[3].call = "acquire"

C23_Step ==
    /\ (MadeCall("present") /\ LastResult \in StaleResults) =>
            /\ recreate_swapchain'
            /\ pc' = "advance"
    /\ (pc = "advance" /\ pc' # pc) =>
            /\ pc' = "events"
            /\ current_frame' = (current_frame + 1) % num_frames
    /\ MadeCall("acquire") => ~recreate_swapchain /\ ~recreate_swapchain'
    /\ MadeCall("rebuild") => ~recreate_swapchain'
    /\ (pc = "acquire" /\ recreate_swapchain /\ pc' # pc) =>
            /\ pc' = "recreate"
            /\ swapchain_trace' = swapchain_trace

\* C23: a stale present and a window resize mark the swapchain stale; the
\* frame of the stale present still advances the slot; the next frame rebuilds
\* once before its first acquire and clears the mark; acquire is never called
\* while the mark is set.
C23_StaleMarkRebuiltBeforeAcquire == []C23_Marked /\ [][C23_Step]_vars

\* The frame after a stale present has rebuilt and then acquired, on the next slot.
C23_Witness ==
    /\ Len(swapchain_trace) >= 3
    /\ swapchain_trace[1].call = "present"
    /\ swapchain_trace[1].result \in StaleResults
    /\ swapchain_trace[2].call = "rebuild"
    /\ swapchain_trace[3].call = "acquire"
    /\ num_frames > 1
    /\ frame = 1
    /\ ~recreate_swapchain

C24_Step ==
    /\ ((MadeCall("acquire") \/ MadeCall("present"))
            /\ LastResult \notin StaleResults \cup {"SUCCESS"}) =>
        pc' = "panicked"
    /\ pc = "panicked" =>
        UNCHANGED <<pc, steps, swapchain_trace, commands, recorded, current_frame,
                    cqVars, recreate_swapchain, frame_count, push_buffer,
                    staging_buffer_per_frame, vertex_buffer, index_buffer>>

\* C24: a result of acquire or present that is neither success nor a stale
\* report aborts the loop, and no later step of the frame runs.
C24_OtherResultsAreFatal == [][C24_Step]_vars

\* Present has returned an error after a whole frame was recorded and submitted.
C24_Witness ==
    /\ pc = "panicked"
    /\ swapchain_trace # <<>>
    /\ swapchain_trace[Len(swapchain_trace)].call = "present"
    /\ swapchain_trace[Len(swapchain_trace)].result = "ERROR_DEVICE_LOST"
    /\ steps # <<>>
    /\ steps[Len(steps)] = "Present"

\* --------------------------------------------- C25, C26: VulkanBuffer::copy
\* C25: copy returns SpecifiedLengthExceedsBounds and records no copy command
\* exactly when length exceeds the length of the source or of the destination;
\* otherwise it records exactly one copy of length elements and returns Ok.
C25_CopyChecksLength ==
    last_copy.result # "none" =>
        IF last_copy.length > copy_src.length \/ last_copy.length > copy_dst.length
        THEN /\ last_copy.result = "SpecifiedLengthExceedsBounds"
             /\ Len(copy_commands) = last_copy.before
        ELSE /\ last_copy.result = "Ok"
             /\ Len(copy_commands) = last_copy.before + 1
             /\ copy_commands[Len(copy_commands)].size = last_copy.length * elem_size
             /\ copy_commands[Len(copy_commands)].src = copy_src.id
             /\ copy_commands[Len(copy_commands)].dst = copy_dst.id

\* After a copy that was recorded, one that fits the source but not the
\* destination has been refused.
C25_Witness ==
    /\ last_copy.result = "SpecifiedLengthExceedsBounds"
    /\ last_copy.length <= copy_src.length
    /\ last_copy.length > copy_dst.length
    /\ last_copy.before = 1
    /\ Len(copy_commands) = 1

\* C26: whenever copy returns Ok, for any src_offset and dst_offset, the region
\* it records lies inside the source and inside the destination.
C26_CopiedRegionInsideBuffers ==
    \A i \in DOMAIN copy_commands :
        /\ copy_commands[i].src_offset + copy_commands[i].size <= copy_src.device_size
        /\ copy_commands[i].dst_offset + copy_commands[i].size <= copy_dst.device_size

\* ------------------------------------------------ C27: one_time_submit
\* The position in ots_log of the first entry of call `no` named `call`, 0 if none
LogIndex(call, no) ==
    IF \E i \in DOMAIN ots_log : ots_log[i].call = call /\ ots_log[i].no = no
    THEN CHOOSE i \in DOMAIN ots_log :
            /\ ots_log[i].call = call /\ ots_log[i].no = no
            /\ \A j \in 1 .. i - 1 : ~(ots_log[j].call = call /\ ots_log[j].no = no)
    ELSE 0

\* C27: one_time_submit returns only after the device has completed the
\* submitted work (the fence has been waited on); the temporary fence and
\* command buffer are released only after that wait; create_index_buffer
\* destroys its staging buffer only after one_time_submit has returned.
C27_ReleaseAfterWait ==
    \A i \in DOMAIN ots_log :
        LET e == ots_log[i]
        IN  /\ e.call \in {"destroy_fence", "free_command_buffers", "return",
                           "destroy_staging"} =>
                /\ ~e.pending
                /\ LogIndex("queue_submit", e.no) > 0
                /\ LogIndex("wait_for_fences", e.no) > LogIndex("queue_submit", e.no)
                /\ LogIndex("wait_for_fences", e.no) < i
            /\ e.call = "destroy_staging" =>
                /\ LogIndex("return", e.no) > 0
                /\ LogIndex("return", e.no) < i

\* create_index_buffer has destroyed its staging buffer, with work of earlier
\* frames on the queue when it submitted.
C27_Witness ==
    /\ index_staging_buffer = "destroyed"
    /\ ots_pc = "idle"
    /\ ots_call.caller = "create_index_buffer"
    /\ LogIndex("destroy_staging", ots_call.no) > 0
    /\ \E i \in DOMAIN ots_log :
          /\ ots_log[i].call = "queue_submit"
          /\ ots_log[i].no = ots_call.no
          /\ ots_log[i].queued > 0

\* ------------------------------------------ C28: replacing the frame buffers
\* The handles queued in frame_queue' as a buffer and as a memory
QueuedAfter ==
    {h \in 1 .. next_handle' :
        \E b \in DOMAIN frame_queue' :
            /\ \E i \in DOMAIN frame_queue'[b].buffers : frame_queue'[b].buffers[i].handle = h
            /\ \E i \in DOMAIN frame_queue'[b].memory : frame_queue'[b].memory[i].handle = h}

\* What one resize block has done to a buffer: old before the step, new after
Replaced(old, new) ==
    IF old.length < Len(push_buffer'.data)
    THEN /\ new.id # old.id
         /\ new.id >= next_handle
         /\ new.length = pb_capacity(push_buffer')
         /\ old.id \in QueuedAfter
    ELSE new = old

C28_RecordStep ==
    (pc = "record" /\ pc' # pc) =>
        /\ Replaced(staging_buffer_per_frame[frame], staging_buffer_per_frame'[frame])
        /\ Replaced(vertex_buffer, vertex_buffer')
        /\ Replaced(index_buffer, index_buffer')
        /\ \A i \in DOMAIN staging_buffer_per_frame :
              i # frame => staging_buffer_per_frame'[i] = staging_buffer_per_frame[i]
        /\ device_log' = device_log

\* The handles of the buffers in use
LiveHandles ==
    {staging_buffer_per_frame[i].id : i \in DOMAIN staging_buffer_per_frame}
        \cup {vertex_buffer.id, index_buffer.id}

C28_DestroyedByQueue ==
    \A i \in DOMAIN device_log :
        device_log[i].handle \notin LiveHandles =>
            device_log[i].by \in {"tick", "destroy"}

\* C28: in RecordCommands, a frame buffer (staging, vertex, index) shorter than
\* the data to upload is replaced by a new one of the push buffer's capacity
\* and the old one goes to the cleanup queue; a replaced buffer is not destroyed
\* inside the frame, and once queued only the cleanup queue destroys it.
C28_ReplacedBuffersGoToCleanupQueue ==
    []C28_DestroyedByQueue /\ [][C28_RecordStep]_vars

\* All three buffers of the first frame were replaced, and a later tick has
\* destroyed the old vertex buffer.
C28_Witness ==
    /\ vertex_buffer.length > 3
    /\ index_buffer.length > 3
    /\ \E i \in DOMAIN device_log :
          /\ device_log[i].by = "tick"
          /\ device_log[i].call = "destroy_buffer"
          /\ device_log[i].handle = num_frames + 1

\* ------------------------------------------------ C29: the two slot indices
\* The positions of the control thread before the frame's tick
BeforeTick == {"events", "acquire", "recreate", "wait_fence", "reset_fence", "tick"}

\* C29: at the start of every frame (and until the frame's tick) the current
\* index of the CleanupQueue equals the slot index of the frame loop, also
\* after acquire retries, rebuilds and stale presents.
C29_QueueIndexIsSlotIndex ==
    /\ pc \in BeforeTick => current_frame_index = current_frame
    /\ pc \in BeforeTick \ {"events"} => current_frame_index = frame

\* A frame on slot 1 that follows a stale present, has rebuilt, acquired with
\* an out-of-date report, rebuilt again and acquired.
C29_Witness ==
    /\ pc = "wait_fence"
    /\ num_frames = 2
    /\ frame = 1
    /\ frame_count >= 4
    /\ Len(swapchain_trace) = 5
    /\ swapchain_trace[1].call = "present"
    /\ swapchain_trace[1].result \in StaleResults
    /\ swapchain_trace[3].result = "ERROR_OUT_OF_DATE_KHR"
    /\ swapchain_trace[5].result = "SUCCESS"

\* ------------------------------------------- C30: barriers around the upload
IsBarrier(c, src_stage, dst_stage) ==
    /\ c.cmd = "pipeline_barrier"
    /\ c.src_stage = src_stage
    /\ c.dst_stage = dst_stage

\* C30: in the commands of a frame, a barrier from VERTEX_INPUT to TRANSFER
\* precedes the copy from the staging buffer to the vertex buffer, and a
\* barrier from TRANSFER (write) to VERTEX_INPUT (vertex attribute read)
\* follows the copy and precedes every draw that reads the vertex buffer.
C30_BarriersAroundCopy ==
    \A c \in DOMAIN commands :
        commands[c].cmd = "copy_buffer" =>
            /\ \E a \in 1 .. c - 1 : IsBarrier(commands[a], "VERTEX_INPUT", "TRANSFER")
            /\ \E b \in c + 1 .. Len(commands) :
                  /\ IsBarrier(commands[b], "TRANSFER", "VERTEX_INPUT")
                  /\ commands[b].src_access = "TRANSFER_WRITE"
                  /\ commands[b].dst_access = "VERTEX_ATTRIBUTE_READ"
                  /\ \A d \in DOMAIN commands :
                        commands[d].cmd = "draw_indexed" => b < d
            /\ \A d \in DOMAIN commands :
                  commands[d].cmd = "draw_indexed" => commands[d].buffer = commands[c].buffer

\* A frame has recorded the copy into the vertex buffer and its two draws.
C30_Witness ==
    /\ pc = "submit"
    /\ \E c \in DOMAIN commands :
          /\ commands[c].cmd = "copy_buffer"
          /\ commands[c].buffer = vertex_buffer.id
    /\ Cardinality({d \in DOMAIN commands : commands[d].cmd = "draw_indexed"}) = 2
    /\ frame_count = 2

\* ------------------------------------------- C31: semaphores and the fence
\* The objects of the slot of the running frame, counted from the frames started
SlotOfFrame(no) == (no - 1) % num_frames

C31_Submit(q) ==
    LET fd == PerFrameData(SlotOfFrame(frame_count))
    IN  /\ \E a \in 1 .. q - 1 :
              /\ sync_ops[a].op = "acquire"
              /\ sync_ops[a].ok
              /\ sync_ops[a].signals = {fd.image_acquired_semaphore}
              /\ sync_ops[q].waits = sync_ops[a].signals
              /\ \A b \in a + 1 .. q - 1 : sync_ops[b].op # "acquire"
        /\ sync_ops[q].signals = {fd.frame_fence, fd.render_complete_semaphore}
        /\ \E w \in 1 .. q - 1 :
              /\ sync_ops[w].op = "wait_for_fences"
              /\ sync_ops[w].waits = {fd.frame_fence}
              /\ \E r \in w + 1 .. q - 1 :
                    /\ sync_ops[r].op = "reset_fences"
                    /\ sync_ops[r].signals = {fd.frame_fence}

C31_Present(p) ==
    \E q \in 1 .. p - 1 :
        /\ sync_ops[q].op = "queue_submit"
        /\ sync_ops[p].waits =
              {PerFrameData(SlotOfFrame(frame_count)).render_complete_semaphore}
        /\ sync_ops[p].waits \subseteq sync_ops[q].signals

\* C31: the submit of a frame waits on the semaphore passed to the frame's
\* successful acquire and signals the fence and the render-complete semaphore
\* of the slot; present waits on that render-complete semaphore; the submit
\* follows the acquire and the present follows the submit; and the fence the
\* device signals for the submission is the fence the frame N later waits on.
C31_SemaphoresChainAcquireSubmitPresent ==
    /\ \A i \in DOMAIN sync_ops :
          /\ sync_ops[i].op = "queue_submit" => C31_Submit(i)
          /\ sync_ops[i].op = "queue_present" => C31_Present(i)
    /\ sync_ops # <<>> => frame = SlotOfFrame(frame_count)
    /\ \A i \in DOMAIN gpu_pending :
          gpu_pending[i].slot = SlotOfFrame(gpu_pending[i].no)

\* With 2 slots, the third frame has waited on the fence the first frame's
\* submit signaled, acquired on the second attempt, submitted and presented.
C31_Witness ==
    /\ num_frames = 2
    /\ frame_count = 3
    /\ pc = "advance"
    /\ Len(sync_ops) = 6
    /\ sync_ops[1].op = "acquire"
    /\ ~sync_ops[1].ok
    /\ sync_ops[2].op = "acquire"
    /\ sync_ops[5].op = "queue_submit"
    /\ sync_ops[6].op = "queue_present"

\* ------------------------------------------------ C32: no deadlock on a fence
\* The frame was aborted by a fatal result of acquire / of present
FatalResult(call) ==
    /\ pc = "panicked"
    /\ swapchain_trace # <<>>
    /\ swapchain_trace[Len(swapchain_trace)].call = call
    /\ swapchain_trace[Len(swapchain_trace)].result \notin StaleResults \cup {"SUCCESS"}

\* A fence is unsignaled only between its reset and the submit of the same
\* frame, or while the submission that signals it is on the device; the first
\* wait on a slot finds the fence signaled.
C32_FenceSignalPending ==
    /\ \A slot \in DOMAIN frame_fences :
          ~frame_fences[slot] =>
              \/ SlotPending(slot)
              \/ frame = slot /\ pc \in {"tick", "record", "submit"}
    /\ (pc = "wait_fence" /\ frame_count <= num_frames) =>
          frame_fences[frame] /\ ~SlotPending(frame)

ListOf(qf, call) == IF call = "destroy_buffer" THEN qf.buffers ELSE qf.memory

\* The buckets the step being taken changes.
ChangedBuckets == {b \in DOMAIN frame_queue : frame_queue'[b] # frame_queue[b]}

\* The entries of handle h waiting for `call` in the buckets bs of fq.
PendingIn(fq, bs, call, h) ==
    Cardinality({p \in UNION {{b} \X DOMAIN ListOf(fq[b], call) : b \in bs} :
                    ListOf(fq[p[1]], call)[p[2]].handle = h})

\* The entries of handle h the step being taken queues for the device call.
QueuedByStep(call, h) ==
    IF /\ IsQueueStep
       /\ last_call'.handle = h
       /\ \/ call = "destroy_buffer" /\ last_call'.name \in {"queue_buffer", "queue"}
          \/ call = "free_memory" /\ last_call'.name \in {"queue_memory", "queue"}
    THEN 1 ELSE 0

DeviceCalls == {"destroy_buffer", "free_memory"}

\* Every step keeps the account of each resource: what was destroyed stays
\* destroyed, and an entry that leaves the buckets is destroyed by that step,
\* once, while nothing else is destroyed.
C33_Account ==
    /\ Len(device_log') >= Len(device_log)
    /\ SubSeq(device_log', 1, Len(device_log)) = device_log
    /\ DOMAIN frame_queue' = DOMAIN frame_queue
    /\ \E bs \in {ChangedBuckets}, new \in {NewCalls} :
          \A call \in DeviceCalls, h \in Handles :
              CountCalls(new, call, h) + PendingIn(frame_queue', bs, call, h)
                = PendingIn(frame_queue, bs, call, h) + QueuedByStep(call, h)

\* What a tick or destroy finds in the buckets it services.
ServedEmpty ==
    IF last_call'.name = "tick"
    THEN frame_queue[current_frame_index] = QueuedFrame_new
    ELSE \A b \in DOMAIN frame_queue : frame_queue[b] = QueuedFrame_new

C33_Step ==
    /\ C33_Account
    /\ IsQueueStep => NewCalls = <<>>
    /\ (last_call'.name = "destroy" /\ ~IsQueueStep) =>
          \A b \in DOMAIN frame_queue' : frame_queue'[b] = QueuedFrame_new
    /\ (last_call'.name \in {"tick", "destroy"} /\ ~IsQueueStep /\ ServedEmpty) =>
          NewCalls = <<>>

C34_BuffersHoldTheFrame ==
    staging_write # <<>> =>
        /\ staging_write.buffer = staging_buffer_per_frame[frame].id
        /\ staging_write.mapped = staging_buffer_per_frame[frame].length
        /\ staging_write.first = 0
        /\ staging_write.end = Len(push_buffer.data)
        /\ staging_write.end <= staging_write.mapped
        /\ vertex_buffer.length >= Len(push_buffer.data)
        /\ copy(staging_buffer_per_frame[frame], vertex_buffer, 0, 0,
                Len(push_buffer.data)).result = "Ok"
        /\ \E i \in DOMAIN commands : commands[i].cmd = "copy_buffer"

\* The first frame pushed 6 vertices and left slot 0 with a staging buffer of
\* 6 elements; the second pushed 7, the push buffer grew to 12, and the frame
\* replaced the staging buffer of slot 1 and the vertex buffer before writing.
C34_Witness ==
    /\ num_frames = 2
    /\ frame_count = 2
    /\ frame = 1
    /\ staging_write # <<>>
    /\ staging_write.end = 12
    /\ push_buffer.length = 7
    /\ staging_buffer_per_frame[0].length = 6
    /\ staging_buffer_per_frame[1].length = 12
    /\ vertex_buffer.length = 12

\* ------------------------------------------ C35, C36: the ranges handed out
\* The byte range [offset, offset + size) of a SubAllocation, in unbounded
\* arithmetic.
RangeEnd(sub) == sub.offset + sub.size

\* C35: the sub-allocations returned with Ok occupy pairwise disjoint byte
\* ranges [offset, offset + size), each inside [0, size of the backing
\* allocation).
C35_SubAllocationsDisjointInside ==
    /\ \A i \in DOMAIN sub_allocations :
          /\ sub_allocations[i].offset >= 0
          /\ RangeEnd(sub_allocations[i]) <= allocator.size
    /\ \A i, j \in DOMAIN sub_allocations :
          i < j =>
              \/ RangeEnd(sub_allocations[i]) <= sub_allocations[j].offset
              \/ RangeEnd(sub_allocations[j]) <= sub_allocations[i].offset

\* The end of the request of the last allocate call when aligned, in unbounded
\* arithmetic.
AlignedEnd ==
    LeastMultipleAtLeast(last_alloc.alignment, last_alloc.before) + last_alloc.size

C36_OkOnlyIfFits ==
    last_alloc.result = "Ok" => AlignedEnd <= allocator.size

C36_AllocateStep ==
    alloc_calls' # alloc_calls =>
        /\ allocator'.free_section_start >= last_alloc'.before
        /\ last_alloc'.before = allocator.free_section_start

\* C36: allocate never returns Ok for a request whose aligned end exceeds the
\* backing size, also when the padding or offset + size passes the range of
\* u64: a wrapped sum is never accepted and no call moves the cursor back.
C36_WrappedSumNeverAccepted == []C36_OkOnlyIfFits /\ [][C36_AllocateStep]_vars

\* -------------------------------- C37: a buffer and its dedicated memory
\* What queueing a buffer with a dedicated allocation (last_call "queue") and
\* queueing a plain buffer, which hands its vk::Buffer to queue_buffer
\* (last_call "queue_buffer"), do to the buckets.
C37_QueueStep ==
    LET e == Entry(last_call'.handle, tick_count)
    IN  /\ (IsQueueStep /\ last_call'.name = "queue") =>
              \E b \in DOMAIN frame_queue :
                  /\ frame_queue'[b].buffers = Append(frame_queue[b].buffers, e)
                  /\ frame_queue'[b].memory = Append(frame_queue[b].memory, e)
        /\ (IsQueueStep /\ last_call'.name = "queue_buffer") =>
              /\ \A b \in DOMAIN frame_queue :
                    frame_queue'[b].memory = frame_queue[b].memory
              /\ \E b \in DOMAIN frame_queue :
                    frame_queue'[b].buffers = Append(frame_queue[b].buffers, e)

\* What a tick or destroy does to a bucket and the order of its device calls:
\* a bucket is destroyed as a whole, buffers and memory by the same call, or
\* not at all, and of the calls made for one bucket no free_memory comes
\* before a destroy_buffer.
C37_DestroyStep ==
    \E new \in {NewCalls} :
        /\ \A b \in DOMAIN frame_queue :
              LET made == {i \in DOMAIN new : new[i].bucket = b}
              IN  \/ /\ frame_queue'[b] = frame_queue[b]
                     /\ made = {}
                  \/ /\ ~IsQueueStep
                     /\ frame_queue'[b] = QueuedFrame_new
                     /\ Cardinality(made) =
                           Len(frame_queue[b].buffers) + Len(frame_queue[b].memory)
                  \/ IsQueueStep /\ made = {}
        /\ \A i, j \in DOMAIN new :
              (i < j /\ new[i].bucket = new[j].bucket) =>
                  ~(new[i].call = "free_memory" /\ new[j].call = "destroy_buffer")

\* C37: queueing a buffer with a dedicated allocation puts its buffer handle
\* and its memory handle into the same bucket, which one tick destroys as a
\* whole; queueing a plain buffer queues only the buffer handle; and within a
\* bucket every buffer is destroyed before any memory is freed.
C37_BufferAndMemoryTogether == [][C37_QueueStep /\ C37_DestroyStep]_vars

\* A tick has destroyed a buffer with a dedicated allocation queued earlier:
\* destroy_buffer, then free_memory, of the same bucket in the same tick.
C37_Witness ==
    /\ NumBuckets = 2
    /\ last_call.name = "tick"
    /\ Len(device_log) = 2
    /\ device_log[1].call = "destroy_buffer"
    /\ device_log[2].call = "free_memory"
    /\ device_log[1].handle = device_log[2].handle
    /\ device_log[1].at = device_log[2].at
    /\ device_log[1].bucket = device_log[2].bucket
    /\ device_log[1].tick = tick_count
    /\ device_log[2].tick = tick_count
    /\ queue_count = 1

\* --------------------------------------------- C39: get_aligned_offset
\* C39: for every offset and every alignment > 0, get_aligned_offset returns
\* offset + ((alignment - offset % alignment) % alignment), which is the least
\* multiple of alignment that is >= offset, and returns offset itself when
\* offset is a multiple of alignment.
C39_AlignedOffsetIsLeastMultiple ==
    (last_aligned.result # "none" /\ last_aligned.alignment > 0) =>
        LET offset == last_aligned.offset
            alignment == last_aligned.alignment
        IN  /\ last_aligned.result = "returned"
            /\ last_aligned.value =
                  offset + ((alignment - (offset % alignment)) % alignment)
            /\ last_aligned.value = LeastMultipleAtLeast(alignment, offset)
            /\ offset % alignment = 0 => last_aligned.value = offset

\* ---------------------------------------------- C38: recreate_swapchain
IsDestroyCall(e) ==
    e.call \in {"destroy_framebuffer", "destroy_image_view", "destroy_swapchain"}

IsCreateCall(e) ==
    e.call \in {"create_swapchain", "create_image_view", "create_framebuffer"}

\* The swapchains alive on the device
LiveSwapchains == {o \in swapchain_objects : o.kind = "swapchain"}

\* C38: in every recreate_swapchain call the old swapchain, image views and
\* framebuffers are destroyed only after device_wait_idle has returned and the
\* new ones are created only after all the old ones are destroyed; no
\* swapchain object is destroyed while a frame on the device uses it; and
\* once the call has returned exactly one swapchain exists, the one in
\* swapchain_manager, with its image views and framebuffers and nothing else.
C38_RecreateAfterIdle ==
    /\ \A j \in DOMAIN rs_log :
          IsDestroyCall(rs_log[j]) =>
              /\ \E i \in 1 .. j - 1 :
                    /\ rs_log[i].call = "device_wait_idle"
                    /\ rs_log[i].no = rs_log[j].no
              /\ rs_log[j].object \notin rs_log[j].in_use
    /\ \A j \in DOMAIN rs_log :
          (IsCreateCall(rs_log[j]) /\ rs_log[j].no > 0) =>
              /\ \E i \in 1 .. j - 1 :
                    /\ rs_log[i].call = "destroy_swapchain"
                    /\ rs_log[i].no = rs_log[j].no
                    /\ rs_log[i].object.gen = rs_log[j].object.gen - 1
              /\ \A i \in j + 1 .. Len(rs_log) :
                    IsDestroyCall(rs_log[i]) => rs_log[i].no > rs_log[j].no
    /\ rs_pc = "caller" =>
          /\ LiveSwapchains = {swapchain_manager.swapchain}
          /\ swapchain_objects =
                ObjectsOf(SwapchainManager_new_calls(swapchain_manager))

\* Two frames were submitted on the first swapchain; recreate_swapchain was
\* called while they were on the device and has returned with the second
\* swapchain, after every object of the first one was destroyed.
C38_Witness ==
    /\ rs_pc = "caller"
    /\ rs_calls = 1
    /\ rs_submits = 2
    /\ swapchain_manager.swapchain.gen = 2
    /\ \E i \in DOMAIN rs_log :
          /\ rs_log[i].call = "destroy_swapchain"
          /\ rs_log[i].object.gen = 1
    /\ \E i \in DOMAIN rs_log :
          /\ rs_log[i].call = "destroy_framebuffer"
          /\ rs_log[i].object.image = 2

====
